---- MODULE Spec2Model ----
(****************************************************************************)
(* Model of the hudy Python SDK: the year-keyed SmartCache (hudy/cache.py), *)
(* the part of HudyClient (hudy/client.py) that reads and fills it, and the *)
(* BusinessDayCalculator (hudy/utils/business_days.py).                     *)
(****************************************************************************)
EXTENDS Integers, Sequences, FiniteSets, TLC

\* ------------------------------------------------------------------ bounds
MaxTicks == 1          \* how many times the wall clock is advanced
MaxGets == 2           \* how many SmartCache.get calls are made between clears
WindowDays == 10       \* how many consecutive days the calculator's dates come from
MaxDays == 3           \* the largest |days| passed to add_business_days
MaxRetries == 2        \* the largest max_retries a client is configured with
MaxCalls == 3          \* how many calls the two threads make together
MaxLookups == 3        \* how many cache lookups the client's calls make between clears
MaxFetches == 2        \* how many cache lookups the client's business-day calls make

\* --------------------------------------------------------------- constants
Day == 86400                       \* 24 * 60 * 60
TTL_PAST == 365 * 24 * 60 * 60     \* cache.py:133
TTL_CURRENT == 24 * 60 * 60        \* cache.py:136
TTL_FUTURE == 7 * 24 * 60 * 60     \* cache.py:139
MIN_YEAR == 1900                   \* client.py:78
MAX_YEAR == 2100                   \* client.py:78
EpochYear == 2024                  \* the clock counts seconds from 2024-01-01 00:00:00

\* Python's None, for Optional[int] and Optional[List[Holiday]] values.
\* An Optional value is modelled as a record tagged with what it holds.
None == [kind |-> "none"]
Some(v) == [kind |-> "value", v |-> v]

\* ------------------------------------------------------------ the calendar
IsLeap(y) == (y % 4 = 0 /\ y % 100 # 0) \/ y % 400 = 0
DaysInYear(y) == IF IsLeap(y) THEN 366 ELSE 365

RECURSIVE YearStart(_)
\* seconds from the epoch to 1 January of year y, 00:00:00
YearStart(y) == IF y <= EpochYear THEN 0 ELSE YearStart(y - 1) + DaysInYear(y - 1) * Day

RECURSIVE YearFrom(_, _, _)
\* the year that holds clock reading t, searching from year y which starts at reading start
YearFrom(y, start, t) ==
    IF t < start + DaysInYear(y) * Day THEN y
    ELSE YearFrom(y + 1, start + DaysInYear(y) * Day, t)
\* datetime.now().year for the clock reading t
current_year(t) == YearFrom(EpochYear, 0, t)

\* A datetime.date is its day number, counted from 2024-01-01 (day 0).
DaysInMonth(y, m) ==
    IF m = 2 THEN (IF IsLeap(y) THEN 29 ELSE 28)
    ELSE IF m \in {4, 6, 9, 11} THEN 30 ELSE 31

RECURSIVE DaysBeforeYear(_)
DaysBeforeYear(y) == IF y <= EpochYear THEN 0 ELSE DaysBeforeYear(y - 1) + DaysInYear(y - 1)

RECURSIVE DaysBeforeMonth(_, _)
DaysBeforeMonth(y, m) == IF m <= 1 THEN 0 ELSE DaysBeforeMonth(y, m - 1) + DaysInMonth(y, m - 1)

\* date(y, m, d)
Date(y, m, d) == DaysBeforeYear(y) + DaysBeforeMonth(y, m) + (d - 1)

RECURSIVE YearOfDay(_, _)
YearOfDay(y, n) == IF n < DaysInYear(y) THEN y ELSE YearOfDay(y + 1, n - DaysInYear(y))

RECURSIVE MonthOfDay(_, _, _)
MonthOfDay(y, m, n) ==
    IF n < DaysInMonth(y, m) THEN m ELSE MonthOfDay(y, m + 1, n - DaysInMonth(y, m))

\* d.year
date_year(d) == YearOfDay(EpochYear, d)
\* (d.year, d.month, d.day)
timetuple(d) ==
    LET y == date_year(d)
        n == d - DaysBeforeYear(y)
        m == MonthOfDay(y, 1, n)
    IN  << y, m, n - DaysBeforeMonth(y, m) + 1 >>

\* ------------------------------------------------------------ holiday data
\* A date string is the sequence of its characters' codes.
Dash == 45
Zero == 48
Digit(n) == Zero + n
\* strftime("%Y-%m-%d") of the date y-m-d: four, two and two digits
format_date(y, m, d) ==
    << Digit(y \div 1000), Digit((y \div 100) % 10), Digit((y \div 10) % 10), Digit(y % 10),
       Dash, Digit(m \div 10), Digit(m % 10),
       Dash, Digit(d \div 10), Digit(d % 10) >>

Holiday(id, y, m, d) ==
    [id |-> id, date |-> format_date(y, m, d), year |-> y, month |-> m, day |-> d]

RECURSIVE Decimal(_)
\* str(n) for n >= 0: the decimal digits, no padding
Decimal(n) == IF n < 10 THEN << Digit(n) >> ELSE Decimal(n \div 10) \o << Digit(n % 10) >>

RECURSIVE Split(_, _)
\* v.split(sep): the pieces of v between the occurrences of the character sep
Split(v, sep) ==
    IF \A i \in 1..Len(v) : v[i] # sep THEN << v >>
    ELSE LET k == CHOOSE i \in 1..Len(v) : v[i] = sep /\ \A j \in 1..(i - 1) : v[j] # sep
         IN  << SubSeq(v, 1, k - 1) >> \o Split(SubSeq(v, k + 1, Len(v)), sep)

RECURSIVE ParseDigits(_, _)
ParseDigits(chars, acc) ==
    IF chars = << >> THEN acc
    ELSE ParseDigits(Tail(chars), 10 * acc + (Head(chars) - Zero))
\* int(chars) for a string of decimal digits; None where int raises ValueError
ParseInt(chars) ==
    IF chars # << >> /\ \A i \in 1..Len(chars) : chars[i] \in Zero..(Zero + 9)
    THEN Some(ParseDigits(chars, 0))
    ELSE None

\* Holiday.validate_date_format: whether the date string v is accepted
validate_date_format(v) ==
    LET parts == Split(v, Dash) IN
    /\ Len(parts) = 3
    /\ \A i \in 1..3 : ParseInt(parts[i]) # None
    /\ 1900 <= ParseInt(parts[1]).v /\ ParseInt(parts[1]).v <= 2100
    /\ 1 <= ParseInt(parts[2]).v /\ ParseInt(parts[2]).v <= 12
    /\ 1 <= ParseInt(parts[3]).v /\ ParseInt(parts[3]).v <= 31

hNewYear == Holiday("h1", 2026, 1, 1)
\* Friday 2026-01-02 with its date field spelled "2026-1-2"
hUnpadded ==
    [Holiday("h6", 2026, 1, 2) EXCEPT
        !.date = Decimal(2026) \o << Dash >> \o Decimal(1) \o << Dash >> \o Decimal(2)]
hChristmas == Holiday("h2", 2025, 12, 25)

\* d.strftime("%Y-%m-%d")
strftime(d) ==
    CHOOSE v \in { format_date(ymd[1], ymd[2], ymd[3]) : ymd \in {timetuple(d)} } : TRUE

RECURSIVE StrLess(_, _)
\* a < b for two strings: the first differing character decides, a prefix is smaller
StrLess(a, b) ==
    IF b = << >> THEN FALSE
    ELSE IF a = << >> THEN TRUE
    ELSE IF Head(a) # Head(b) THEN Head(a) < Head(b)
    ELSE StrLess(Tail(a), Tail(b))
\* a <= b for two strings
StrLE(a, b) == a = b \/ StrLess(a, b)

\* a run of holidays around a weekend: Thursday, Friday, Saturday and Monday
hRun == << hChristmas, Holiday("h3", 2025, 12, 26), Holiday("h4", 2025, 12, 27),
           Holiday("h5", 2025, 12, 29) >>
\* the lists a BusinessDayCalculator is constructed with
CalculatorHolidays == { << >>, << hNewYear, hChristmas >>, hRun, << hNewYear, hUnpadded >> }
\* the dates passed to the calculator: 2025-12-24 (a Wednesday) and the days after
WindowStart == Date(2025, 12, 24)
Window == WindowStart..(WindowStart + WindowDays - 1)

\* the lists a caller stores or the service answers: an empty and an unsorted one
HolidayLists == { <<>>, <<hNewYear, hChristmas>> }

\* the years used as cache keys
Years == {2025, 2026}
\* the years a caller passes to the client: the cached ones and one out of range
ClientYears == Years \cup {MAX_YEAR + 1}
\* clock reading at construction: 2025-12-31 00:00:00
StartTime == YearStart(2026) - Day
\* the (from_date, to_date) pairs passed to get_range: inside one year, across
\* the year end with from_date the day after a holiday and to_date on a
\* holiday, and the same two dates swapped
RangeArgs ==
    { << Date(2025, 12, 1), Date(2025, 12, 31) >>,
      << Date(2025, 12, 26), Date(2026, 1, 1) >>,
      << Date(2026, 1, 1), Date(2025, 12, 26) >> }
\* the (from_date, to_date) pairs passed to the client's range calls: a single
\* day, a range across the year end, and the same two dates swapped
ClientRangeArgs ==
    { << Date(2025, 12, 25), Date(2025, 12, 25) >>,
      << Date(2025, 12, 26), Date(2026, 1, 1) >>,
      << Date(2026, 1, 1), Date(2025, 12, 26) >> }

TickSteps == {1, Day, TTL_PAST}
\* the TTL overrides a cache is constructed with (CacheOptions.ttl)
CustomTTLs == {None, Some(0), Some(2)}

VARIABLES
    store,        \* SmartCache._store: key -> CacheEntry
    hits,         \* SmartCache._hits
    misses,       \* SmartCache._misses
    custom_ttl,   \* SmartCache._custom_ttl
    now,          \* the wall clock, what time.time() returns
    ret,          \* the last completed call: its name, argument and result
    gets,         \* history: number of get calls since construction or the last clear
    written,      \* history: per year, the last set since construction or the last clear
    pending,      \* HudyClient.get_holidays: the year whose request is outstanding, or None
    ticks,        \* history: number of clock advances made so far
    holiday_set,  \* BusinessDayCalculator._holiday_set
    calc_ret,     \* the last completed BusinessDayCalculator call and its result
    asked,        \* history: the years the last whole client call looked up, in order
    retry,        \* HudyClient._options.retry
    pc,           \* HudyClient._request: where the request in progress stands
    attempt,      \* _request_with_retry: the loop variable attempt
    delay,        \* _request_with_retry: the local delay
    last_error,   \* _request_with_retry: the local last_error
    calls,        \* history: what each _execute_request of the request returned or raised
    slept,        \* history: the arguments of the time.sleep calls of the request
    outcome,      \* what the request returned or raised, None while it runs
    threads,      \* per thread: the call it is in, its position and its local variables
    walk          \* BusinessDayCalculator: the date scan in progress and its local variables

cache_vars == << store, hits, misses, custom_ttl, now, ret, gets, written, pending, ticks,
                 holiday_set, calc_ret, asked >>

request_vars == << retry, pc, attempt, delay, last_error, calls, slept, outcome >>

vars == << cache_vars, request_vars, threads, walk >>

\* ---------------------------------------------------------------- SmartCache
_get_year_key(year) == << "year", year >>

CacheEntry(data, expires_at) == [data |-> data, expires_at |-> expires_at]

\* variant: `year <= current_year`, the current year falls into the past tier
_get_ttl_le(cttl, year, t) ==
    IF cttl # None THEN cttl.v
    ELSE IF year <= current_year(t) THEN TTL_PAST
    ELSE TTL_FUTURE

\* variant: `if self._custom_ttl:`, an override of 0 counts as no override
_get_ttl_truthy(cttl, year, t) ==
    IF cttl # None /\ cttl.v # 0 THEN cttl.v
    ELSE IF year < current_year(t) THEN TTL_PAST
    ELSE IF year = current_year(t) THEN TTL_CURRENT
    ELSE TTL_FUTURE

\* SmartCache._get_ttl read at clock reading t
_get_ttl(cttl, year, t) ==
    IF cttl # None THEN cttl.v
    ELSE IF year < current_year(t) THEN TTL_PAST
    ELSE IF year = current_year(t) THEN TTL_CURRENT
    ELSE TTL_FUTURE

\* a raised exception of the given type
Raise(type) == [kind |-> "error", type |-> type]

\* the mapping st without key k
Without(st, k) == [x \in (DOMAIN st) \ {k} |-> st[x]]
\* the mapping st with key k bound to entry e
With(st, k, e) == [x \in (DOMAIN st) \cup {k} |-> IF x = k THEN e ELSE st[x]]

\* variant: `time.time() >= entry.expires_at`
Expired_inclusive(entry, t) == t >= entry.expires_at

\* `time.time() > entry.expires_at`
Expired(entry, t) == t > entry.expires_at

\* variant: get without the expiry check
get_result_no_expiry(st, year, t) ==
    IF _get_year_key(year) \notin DOMAIN st THEN None
    ELSE Some(st[_get_year_key(year)].data)

\* what SmartCache.get(year) returns at clock reading t
get_result(st, year, t) ==
    LET key == _get_year_key(year) IN
    IF key \notin DOMAIN st THEN None
    ELSE IF Expired(st[key], t) THEN None
    ELSE Some(st[key].data)

\* what `del self._store[key]` raises: KeyError when the key is not in the mapping
del_item_raised(st, key) == IF key \in DOMAIN st THEN None ELSE Raise("KeyError")

\* variant: get without the `if not entry` guard reads `entry.expires_at` of None
get_raised_unguarded(st, year, t) ==
    IF _get_year_key(year) \notin DOMAIN st THEN Raise("AttributeError")
    ELSE IF Expired(st[_get_year_key(year)], t) THEN del_item_raised(st, _get_year_key(year))
    ELSE None

\* what SmartCache.get(year) raises at clock reading t, None when it returns
get_raised(st, year, t) ==
    LET key == _get_year_key(year) IN
    IF key \notin DOMAIN st THEN None
    ELSE IF Expired(st[key], t) THEN del_item_raised(st, key)
    ELSE None

\* what the call get(year) gives its caller: the exception or the returned value
get_outcome(st, year, t) ==
    IF get_raised(st, year, t) # None THEN get_raised(st, year, t)
    ELSE get_result(st, year, t)

get_store_sweep(st, year, t) ==
    IF _get_year_key(year) \in DOMAIN st /\ Expired(st[_get_year_key(year)], t)
    THEN [x \in {k \in DOMAIN st : ~Expired(st[k], t)} |-> st[x]]
    ELSE st

\* the mapping SmartCache.get(year) leaves behind
get_store(st, year, t) ==
    LET key == _get_year_key(year) IN
    IF key \in DOMAIN st /\ Expired(st[key], t) THEN Without(st, key) ELSE st

\* variant: the expired path forgets `self._misses += 1`
get_misses_absent_only(m, st, year, t) ==
    IF _get_year_key(year) \notin DOMAIN st THEN m + 1 ELSE m

get_hits(h, st, year, t) == IF get_result(st, year, t) # None THEN h + 1 ELSE h
get_misses(m, st, year, t) == IF get_result(st, year, t) = None THEN m + 1 ELSE m

\* variant: `self._store.setdefault(key, ...)`, an existing entry is kept
set_store_setdefault(st, cttl, year, holidays, t) ==
    IF _get_year_key(year) \in DOMAIN st THEN st
    ELSE With(st, _get_year_key(year), CacheEntry(holidays, t + _get_ttl(cttl, year, t)))

\* the mapping SmartCache.set(year, holidays) leaves behind
set_store(st, cttl, year, holidays, t) ==
    With(st, _get_year_key(year), CacheEntry(holidays, t + _get_ttl(cttl, year, t)))

\* variant: `now >= entry.expires_at`
to_remove_inclusive(st, t) == {key \in DOMAIN st : t >= st[key].expires_at}

\* the keys SmartCache.prune removes
to_remove(st, t) == {key \in DOMAIN st : Expired(st[key], t)}
prune_store(st, t) == [x \in (DOMAIN st) \ to_remove(st, t) |-> st[x]]
\* what SmartCache.prune raises while deleting the keys it collected
prune_raised(st, t) ==
    IF \A key \in to_remove(st, t) : del_item_raised(st, key) = None
    THEN None ELSE Raise("KeyError")

\* Python truth value of an Optional[List]: None and the empty list are false
Truthy(opt) == opt # None /\ opt.v # << >>

\* `[h for h in holidays if from_str <= h.date <= to_str]`
FilterRange(holidays, from_str, to_str) ==
    SelectSeq(holidays, LAMBDA h : StrLE(from_str, h.date) /\ StrLE(h.date, to_str))

\* variant: after a failed lookup get_range counts a miss of its own
RangeMiss_again(st, h, m, n) ==
    [store |-> st, hits |-> h, misses |-> m + 1, gets |-> n, result |-> None]

\* get_range giving up after n lookups: `return None`
RangeMiss(st, h, m, n) ==
    [store |-> st, hits |-> h, misses |-> m, gets |-> n, result |-> None]

RECURSIVE range_scan(_, _, _, _, _, _, _, _)
\* the loop of SmartCache.get_range from `year` on: one get per year, stopping
\* at the first falsy answer; acc is all_holidays, n the lookups made so far
range_scan(st, h, m, year, to_year, t, acc, n) ==
    IF year > to_year
    THEN [store |-> st, hits |-> h, misses |-> m, gets |-> n, result |-> Some(acc)]
    ELSE IF get_raised(st, year, t) # None
    THEN [store |-> st, hits |-> h, misses |-> m, gets |-> n + 1,
          result |-> get_raised(st, year, t)]
    ELSE IF ~Truthy(get_result(st, year, t))
    THEN RangeMiss(get_store(st, year, t), get_hits(h, st, year, t),
                   get_misses(m, st, year, t), n + 1)
    ELSE range_scan(get_store(st, year, t), get_hits(h, st, year, t),
                    get_misses(m, st, year, t), year + 1, to_year, t,
                    acc \o get_result(st, year, t).v, n + 1)

\* SmartCache.get_range(from_date, to_date) at clock reading t: the state it
\* leaves, the lookups it made and what it returns
get_range_outcome(st, h, m, from_date, to_date, t) ==
    LET from_year == date_year(from_date)
        to_year == date_year(to_date)
        \* the single-year branch is the loop over one year
        scan == range_scan(st, h, m, from_year, to_year, t, << >>, 0)
    IN  IF scan.result.kind # "value" THEN scan
        ELSE [scan EXCEPT !.result =
                 Some(FilterRange(scan.result.v, strftime(from_date), strftime(to_date)))]

\* the orders in which `self._store.items()` may yield the keys of st
ItemOrders(st) ==
    {o \in [1..Cardinality(DOMAIN st) -> DOMAIN st] :
        \A i, j \in 1..Cardinality(DOMAIN st) : i # j => o[i] # o[j]}

\* variant: `size=self._hits`, a copy-and-paste slip
CacheStats_size_hits(h, m, st, order) ==
    [hits |-> h, misses |-> m, size |-> h,
     entries |-> [i \in 1..Len(order) |->
                    [key |-> order[i], expiresAt |-> st[order[i]].expires_at]]]

\* SmartCache.get_stats, the items of the mapping visited in the given order
CacheStats(h, m, st, order) ==
    [hits |-> h, misses |-> m, size |-> Cardinality(DOMAIN st),
     entries |-> [i \in 1..Len(order) |->
                    [key |-> order[i], expiresAt |-> st[order[i]].expires_at]]]

\* a completed call: its name, its argument, what it returned or raised, and a
\* note of what it found (set: the entry it replaced; clear: whether the cache
\* was in use; get_holidays: whether the cache or the service answered)
Return(op, arg, value, note) == [op |-> op, arg |-> arg, value |-> value, note |-> note]

NoWrite == [valid |-> FALSE]
Wrote(data, expires_at) == [valid |-> TRUE, data |-> data, expires_at |-> expires_at]

\* a completed calculator call: its name, its arguments, what it returned or raised
CalcReturn(op, args, value) == [op |-> op, args |-> args, value |-> value]

\* no request has been made: the default retry options, nothing in progress
NoRequestYet ==
    /\ retry = [enabled |-> TRUE, max_retries |-> 3, initial_delay |-> 1,
                max_delay |-> 10, backoff_factor |-> 2]
    /\ pc = "idle"
    /\ attempt = 0
    /\ delay = 0
    /\ last_error = [kind |-> "none"]
    /\ calls = << >>
    /\ slept = << >>
    /\ outcome = [kind |-> "none"]

Init ==
    /\ store = << >>
    /\ hits = 0
    /\ misses = 0
    /\ custom_ttl \in CustomTTLs
    /\ now = StartTime
    /\ ret = Return("init", 0, None, "none")
    /\ gets = 0
    /\ written = [y \in Years |-> NoWrite]
    /\ pending = None
    /\ ticks = 0
    /\ holiday_set = {}
    /\ calc_ret = CalcReturn("init", << >>, None)
    /\ asked = << >>
    /\ NoRequestYet
    /\ threads = << >>
    /\ walk = [pc |-> "idle"]

\* the wall clock advances
Tick ==
    /\ ticks < MaxTicks
    /\ \E d \in TickSteps : now' = now + d
    /\ ticks' = ticks + 1
    /\ UNCHANGED << store, hits, misses, custom_ttl, ret, gets, written, pending,
                    holiday_set, calc_ret, asked, request_vars, threads, walk >>

get(year) ==
    /\ pending = None
    /\ gets < MaxGets
    /\ store' = get_store(store, year, now)
    /\ hits' = get_hits(hits, store, year, now)
    /\ misses' = get_misses(misses, store, year, now)
    /\ ret' = Return("get", year, get_outcome(store, year, now), "none")
    /\ gets' = gets + 1
    /\ UNCHANGED << custom_ttl, now, written, pending, ticks, holiday_set, calc_ret, asked, request_vars, threads, walk >>

\* what a set finds under the key it writes
Found(st, year, t) ==
    IF _get_year_key(year) \notin DOMAIN st THEN "new"
    ELSE IF Expired(st[_get_year_key(year)], t) THEN "over_expired"
    ELSE "over_live"

set(year, holidays) ==
    /\ pending = None
    /\ store' = set_store(store, custom_ttl, year, holidays, now)
    /\ ret' = Return("set", year, None, Found(store, year, now))
    /\ written' = [written EXCEPT ![year] = Wrote(holidays, now + _get_ttl(custom_ttl, year, now))]
    /\ UNCHANGED << hits, misses, custom_ttl, now, gets, pending, ticks,
                    holiday_set, calc_ret, asked, request_vars, threads, walk >>

get_range(from_date, to_date) ==
    /\ pending = None
    /\ \E out \in {get_range_outcome(store, hits, misses, from_date, to_date, now)} :
          /\ gets + out.gets <= MaxGets
          /\ store' = out.store
          /\ hits' = out.hits
          /\ misses' = out.misses
          /\ ret' = Return("get_range", << from_date, to_date >>, out.result, "none")
          /\ gets' = gets + out.gets
    /\ UNCHANGED << custom_ttl, now, written, pending, ticks, holiday_set, calc_ret, asked, request_vars, threads, walk >>

\* variant: clear empties the mapping and forgets to reset the counters
clear_keep_stats ==
    /\ pending = None
    /\ store' = << >>
    /\ ret' = Return("clear", 0, None,
                     IF store # << >> /\ hits > 0 /\ misses > 0 THEN "in_use" ELSE "idle")
    /\ written' = [y \in Years |-> NoWrite]
    /\ UNCHANGED << hits, misses, gets, custom_ttl, now, pending, ticks,
                    holiday_set, calc_ret, asked, request_vars, threads, walk >>

clear ==
    /\ pending = None
    /\ store' = << >>
    /\ hits' = 0
    /\ misses' = 0
    /\ ret' = Return("clear", 0, None,
                     IF store # << >> /\ hits > 0 /\ misses > 0 THEN "in_use" ELSE "idle")
    /\ gets' = 0
    /\ written' = [y \in Years |-> NoWrite]
    /\ UNCHANGED << custom_ttl, now, pending, ticks, holiday_set, calc_ret, asked, request_vars, threads, walk >>

\* variant: prune counts every entry it removes as a miss
prune_counting_misses ==
    /\ pending = None
    /\ store' = prune_store(store, now)
    /\ misses' = misses + Cardinality(to_remove(store, now))
    /\ ret' = Return("prune", 0, Some(Cardinality(to_remove(store, now))), "none")
    /\ UNCHANGED << hits, custom_ttl, now, gets, written, pending, ticks,
                    holiday_set, calc_ret, asked, request_vars, threads, walk >>

prune ==
    /\ pending = None
    /\ store' = prune_store(store, now)
    /\ ret' = Return("prune", 0,
                     IF prune_raised(store, now) # None THEN prune_raised(store, now)
                     ELSE Some(Cardinality(to_remove(store, now))), "none")
    /\ UNCHANGED << hits, misses, custom_ttl, now, gets, written, pending, ticks,
                    holiday_set, calc_ret, asked, request_vars, threads, walk >>

get_stats ==
    /\ pending = None
    /\ \E order \in ItemOrders(store) :
          ret' = Return("get_stats", 0, Some(CacheStats(hits, misses, store, order)), "none")
    /\ UNCHANGED << store, hits, misses, custom_ttl, now, gets, written, pending, ticks,
                    holiday_set, calc_ret, asked, request_vars, threads, walk >>

\* HudyClient.get_holidays up to the request: validation, cache lookup, early return
get_holidays(year) ==
    /\ pending = None
    /\ IF ~(MIN_YEAR <= year /\ year <= MAX_YEAR)
       THEN /\ ret' = Return("get_holidays", year, Raise("ValueError"), "none")
            /\ UNCHANGED << store, hits, misses, gets, pending >>
       ELSE /\ gets < MaxGets
            /\ store' = get_store(store, year, now)
            /\ hits' = get_hits(hits, store, year, now)
            /\ misses' = get_misses(misses, store, year, now)
            /\ gets' = gets + 1
            /\ IF Truthy(get_result(store, year, now))
               THEN /\ ret' = Return("get_holidays", year, get_result(store, year, now), "cache")
                    /\ pending' = None
               ELSE /\ ret' = ret
                    /\ pending' = Some(year)
    /\ UNCHANGED << custom_ttl, now, written, ticks, holiday_set, calc_ret, asked, request_vars, threads, walk >>

\* HudyClient.get_holidays from the request's success on: store in the cache, return
request_ok(holidays) ==
    /\ pending # None
    /\ store' = set_store(store, custom_ttl, pending.v, holidays, now)
    /\ written' = [written EXCEPT
                     ![pending.v] = Wrote(holidays, now + _get_ttl(custom_ttl, pending.v, now))]
    /\ ret' = Return("get_holidays", pending.v, Some(holidays), "service")
    /\ pending' = None
    /\ UNCHANGED << hits, misses, custom_ttl, now, gets, ticks, holiday_set, calc_ret, asked, request_vars, threads, walk >>

\* HudyClient.get_holidays when the request raises HudyError: nothing is stored
request_failed ==
    /\ pending # None
    /\ ret' = Return("get_holidays", pending.v, Raise("HudyError"), "service")
    /\ pending' = None
    /\ UNCHANGED << store, hits, misses, custom_ttl, now, gets, written, ticks,
                    holiday_set, calc_ret, asked, request_vars, threads, walk >>

Next ==
    \/ Tick
    \/ \E year \in Years : get(year)
    \/ \E year \in Years, holidays \in HolidayLists : set(year, holidays)
    \/ \E r \in RangeArgs : get_range(r[1], r[2])
    \/ clear
    \/ prune
    \/ get_stats
    \/ \E year \in ClientYears : get_holidays(year)
    \/ \E holidays \in HolidayLists : request_ok(holidays)
    \/ request_failed

Spec == Init /\ [][Next]_vars

\* ----------------------------------------------------- BusinessDayCalculator
\* date.toordinal() of 2024-01-01, day 0 of the model's day numbers
EpochOrdinal == 738886
toordinal(d) == d + EpochOrdinal
\* date.weekday(): Monday is 0, Sunday is 6
weekday(d) == (toordinal(d) + 6) % 7

\* variant: only Sunday counts as weekend
is_weekend_sunday(d) == weekday(d) = 6

\* `d.weekday() in (5, 6)`
is_weekend(d) == weekday(d) \in {5, 6}

\* `d + timedelta(days=days)`
add_days(d, days) == d + days

\* variant: a holiday string counts when it parses to the calendar day of d
is_business_day_by_date(S, d) ==
    IF is_weekend(d) THEN FALSE
    ELSE ~\E v \in S :
            timetuple(d) = [i \in 1..3 |-> ParseInt(Split(v, Dash)[i]).v]

\* BusinessDayCalculator.is_business_day with _holiday_set = S; the source's
\* format_date(d) is d.strftime("%Y-%m-%d")
is_business_day(S, d) ==
    IF is_weekend(d) THEN FALSE
    ELSE strftime(d) \notin S

RECURSIVE count_loop_exclusive(_, _, _, _)
\* variant: `while current < to_date`
count_loop_exclusive(S, current, to_date, count) ==
    IF current < to_date
    THEN count_loop_exclusive(S, add_days(current, 1), to_date,
                              IF is_business_day(S, current) THEN count + 1 ELSE count)
    ELSE count

RECURSIVE count_loop(_, _, _, _)
\* `while current <= to_date` of count_business_days
count_loop(S, current, to_date, count) ==
    IF current <= to_date
    THEN count_loop(S, add_days(current, 1), to_date,
                    IF is_business_day(S, current) THEN count + 1 ELSE count)
    ELSE count

\* variant: count_business_days without the range check
count_business_days_unchecked(S, from_date, to_date) ==
    Some(count_loop(S, from_date, to_date, 0))

count_business_days(S, from_date, to_date) ==
    IF from_date > to_date THEN Raise("ValueError")
    ELSE Some(count_loop(S, from_date, to_date, 0))

RECURSIVE next_loop(_, _)
\* `while not self.is_business_day(current)` stepping forward
next_loop(S, current) ==
    IF ~is_business_day(S, current) THEN next_loop(S, add_days(current, 1)) ELSE current

\* variant: the search starts at from_date itself
get_next_business_day_from_start(S, from_date) == Some(next_loop(S, from_date))

get_next_business_day(S, from_date) == Some(next_loop(S, add_days(from_date, 1)))

RECURSIVE previous_loop(_, _)
\* `while not self.is_business_day(current)` stepping backward
previous_loop(S, current) ==
    IF ~is_business_day(S, current) THEN previous_loop(S, add_days(current, -1)) ELSE current

\* variant: the search starts at from_date itself
get_previous_business_day_from_start(S, from_date) == Some(previous_loop(S, from_date))

get_previous_business_day(S, from_date) == Some(previous_loop(S, add_days(from_date, -1)))

abs(n) == IF n < 0 THEN -n ELSE n

RECURSIVE add_loop_start_counted(_, _, _, _, _)
\* variant: the date is tested before the step, so from_date itself can count
add_loop_start_counted(S, current, direction, added, remaining) ==
    IF added < remaining
    THEN IF is_business_day(S, current) /\ added + 1 = remaining THEN current
         ELSE add_loop_start_counted(S, add_days(current, direction), direction,
                                     IF is_business_day(S, current) THEN added + 1
                                     ELSE added,
                                     remaining)
    ELSE current

RECURSIVE add_loop(_, _, _, _, _)
\* `while added < remaining` of add_business_days
add_loop(S, current, direction, added, remaining) ==
    IF added < remaining
    THEN add_loop(S, add_days(current, direction), direction,
                  IF is_business_day(S, add_days(current, direction)) THEN added + 1
                  ELSE added,
                  remaining)
    ELSE current

\* variant: `direction = 1` whatever the sign of days
add_business_days_forward(S, from_date, days) ==
    IF days = 0 THEN Some(from_date)
    ELSE Some(add_loop(S, from_date, 1, 0, abs(days)))

add_business_days(S, from_date, days) ==
    IF days = 0 THEN Some(from_date)
    ELSE Some(add_loop(S, from_date, IF days > 0 THEN 1 ELSE -1, 0, abs(days)))

RECURSIVE range_loop_newest_first(_, _, _, _)
\* variant: `business_days.insert(0, current)`
range_loop_newest_first(S, current, to_date, business_days) ==
    IF current <= to_date
    THEN range_loop_newest_first(S, add_days(current, 1), to_date,
                                 IF is_business_day(S, current)
                                 THEN << current >> \o business_days
                                 ELSE business_days)
    ELSE business_days

RECURSIVE range_loop(_, _, _, _)
\* `while current <= to_date` of get_business_days_in_range
range_loop(S, current, to_date, business_days) ==
    IF current <= to_date
    THEN range_loop(S, add_days(current, 1), to_date,
                    IF is_business_day(S, current) THEN Append(business_days, current)
                    ELSE business_days)
    ELSE business_days

get_business_days_in_range(S, from_date, to_date) ==
    IF from_date > to_date THEN Raise("ValueError")
    ELSE Some(range_loop(S, from_date, to_date, << >>))

\* BusinessDayCalculator(holidays): `{h.date for h in holidays}`; no cache in use
CalculatorInit ==
    /\ store = << >>
    /\ hits = 0
    /\ misses = 0
    /\ custom_ttl = None
    /\ now = StartTime
    /\ ret = Return("init", 0, None, "none")
    /\ gets = 0
    /\ written = [y \in Years |-> NoWrite]
    /\ pending = None
    /\ ticks = 0
    /\ \E holidays \in CalculatorHolidays :
          /\ \A i \in 1..Len(holidays) : validate_date_format(holidays[i].date)
          /\ holiday_set = {holidays[i].date : i \in 1..Len(holidays)}
    /\ calc_ret = CalcReturn("init", << >>, None)
    /\ asked = << >>
    /\ NoRequestYet
    /\ threads = << >>
    /\ walk = [pc |-> "idle"]

\* the calculator holds no reference to the cache or the clock
CacheUntouched ==
    UNCHANGED << store, hits, misses, custom_ttl, now, ret, gets, written, pending, ticks,
                 asked, request_vars, threads, walk >>

calc_is_business_day(d) ==
    /\ calc_ret' = CalcReturn("is_business_day", << d >>, Some(is_business_day(holiday_set, d)))
    /\ UNCHANGED holiday_set
    /\ CacheUntouched

calc_count_business_days(from_date, to_date) ==
    /\ calc_ret' = CalcReturn("count_business_days", << from_date, to_date >>,
                              count_business_days(holiday_set, from_date, to_date))
    /\ UNCHANGED holiday_set
    /\ CacheUntouched

calc_get_next_business_day(from_date) ==
    /\ calc_ret' = CalcReturn("get_next_business_day", << from_date >>,
                              get_next_business_day(holiday_set, from_date))
    /\ UNCHANGED holiday_set
    /\ CacheUntouched

calc_get_previous_business_day(from_date) ==
    /\ calc_ret' = CalcReturn("get_previous_business_day", << from_date >>,
                              get_previous_business_day(holiday_set, from_date))
    /\ UNCHANGED holiday_set
    /\ CacheUntouched

calc_add_business_days(from_date, days) ==
    /\ calc_ret' = CalcReturn("add_business_days", << from_date, days >>,
                              add_business_days(holiday_set, from_date, days))
    /\ UNCHANGED holiday_set
    /\ CacheUntouched

calc_get_business_days_in_range(from_date, to_date) ==
    /\ calc_ret' = CalcReturn("get_business_days_in_range", << from_date, to_date >>,
                              get_business_days_in_range(holiday_set, from_date, to_date))
    /\ UNCHANGED holiday_set
    /\ CacheUntouched

CalculatorNext ==
    \/ \E d \in Window : calc_is_business_day(d)
    \/ \E from_date \in Window, to_date \in Window :
          calc_count_business_days(from_date, to_date)
    \/ \E from_date \in Window : calc_get_next_business_day(from_date)
    \/ \E from_date \in Window : calc_get_previous_business_day(from_date)
    \/ \E from_date \in Window, days \in (-MaxDays)..MaxDays :
          calc_add_business_days(from_date, days)
    \/ \E from_date \in Window, to_date \in Window :
          calc_get_business_days_in_range(from_date, to_date)

CalculatorSpec == CalculatorInit /\ [][CalculatorNext]_vars

\* ------------------------------------------------- HudyClient, whole calls
\* A Python value passed as `year`: an int n, or the float n.0
PyInt(n) == [type |-> "int", v |-> n]
PyFloat(n) == [type |-> "float", v |-> n]
\* the years passed to HudyClient.get_holidays: the cached ones, one below and
\* one above the supported range, and a float
YearArgs ==
    {PyInt(y) : y \in Years \cup {MIN_YEAR - 1, MAX_YEAR + 1}} \cup {PyFloat(2025)}
\* the cache TTLs a client is constructed with: year-based, and expiring at once
ClientTTLs == {None, Some(0)}
\* the later clock readings of a client's life: the instant the entry of the
\* current year written at StartTime reaches its expiresAt, and one second after
ClockReadings == {StartTime + TTL_CURRENT, StartTime + TTL_CURRENT + 1}
\* what the service answers to one request: a holiday list or a failure
Responses == {Some(holidays) : holidays \in HolidayLists} \cup {Raise("HudyError")}

\* one lookup of a client call: the year and where its holidays came from
Asked(year, from) == [year |-> year, from |-> from]

\* the result of a client call on the cache (st, h, m): the cache it leaves,
\* the years it looked up in order, and what it returns or raises
Outcome(st, h, m, lookups, result) ==
    [store |-> st, hits |-> h, misses |-> m, asked |-> lookups, result |-> result]

\* variant: the year check comes after the cache lookup
get_holidays_outcome_late_check(st, h, m, cttl, year, t, response) ==
    IF year.type # "int" THEN Outcome(st, h, m, << >>, Raise("ValueError"))
    ELSE IF ~(MIN_YEAR <= year.v /\ year.v <= MAX_YEAR)
    THEN Outcome(get_store(st, year.v, t), get_hits(h, st, year.v, t),
                 get_misses(m, st, year.v, t), << >>, Raise("ValueError"))
    ELSE IF Truthy(get_result(st, year.v, t))
    THEN Outcome(get_store(st, year.v, t), get_hits(h, st, year.v, t),
                 get_misses(m, st, year.v, t), << Asked(year.v, "cache") >>,
                 get_result(st, year.v, t))
    ELSE Outcome(IF response.kind = "value"
                 THEN set_store(get_store(st, year.v, t), cttl, year.v, response.v, t)
                 ELSE get_store(st, year.v, t),
                 get_hits(h, st, year.v, t), get_misses(m, st, year.v, t),
                 << Asked(year.v, "service") >>, response)

\* HudyClient.get_holidays(year) with the cache enabled, at clock reading t,
\* when the service would answer `response`
get_holidays_outcome(st, h, m, cttl, year, t, response) ==
    IF year.type # "int" \/ ~(MIN_YEAR <= year.v /\ year.v <= MAX_YEAR)
    THEN Outcome(st, h, m, << >>, Raise("ValueError"))
    ELSE LET cached == get_result(st, year.v, t)
             st1 == get_store(st, year.v, t)
             h1 == get_hits(h, st, year.v, t)
             m1 == get_misses(m, st, year.v, t)
         IN  IF Truthy(cached)
             THEN Outcome(st1, h1, m1, << Asked(year.v, "cache") >>, cached)
             ELSE IF response.kind = "value"
             THEN Outcome(set_store(st1, cttl, year.v, response.v, t), h1, m1,
                          << Asked(year.v, "service") >>, response)
             ELSE Outcome(st1, h1, m1, << Asked(year.v, "service") >>, response)

RECURSIVE by_range_loop_descending(_, _, _, _, _, _, _, _, _, _)
\* variant: `for year in range(to_year, from_year - 1, -1)`
by_range_loop_descending(st, h, m, cttl, from_year, year, t, responses, acc, lookups) ==
    IF year < from_year THEN Outcome(st, h, m, lookups, Some(acc))
    ELSE LET out == get_holidays_outcome(st, h, m, cttl, PyInt(year), t, responses[year])
         IN  IF out.result.kind # "value"
             THEN Outcome(out.store, out.hits, out.misses, lookups \o out.asked, out.result)
             ELSE by_range_loop_descending(out.store, out.hits, out.misses, cttl, from_year,
                                           year - 1, t, responses, acc \o out.result.v,
                                           lookups \o out.asked)

RECURSIVE by_range_loop(_, _, _, _, _, _, _, _, _, _)
\* `for year in range(from_year, to_year + 1)` of get_holidays_by_range from
\* `year` on; an exception of get_holidays ends the call
by_range_loop(st, h, m, cttl, year, to_year, t, responses, acc, lookups) ==
    IF year > to_year THEN Outcome(st, h, m, lookups, Some(acc))
    ELSE LET out == get_holidays_outcome(st, h, m, cttl, PyInt(year), t, responses[year])
         IN  IF out.result.kind # "value"
             THEN Outcome(out.store, out.hits, out.misses, lookups \o out.asked, out.result)
             ELSE by_range_loop(out.store, out.hits, out.misses, cttl, year + 1, to_year, t,
                                responses, acc \o out.result.v, lookups \o out.asked)

\* HudyClient.get_holidays_by_range(from_date, to_date); responses[y] is what
\* the service would answer for year y
get_holidays_by_range_outcome(st, h, m, cttl, from_date, to_date, t, responses) ==
    IF from_date > to_date THEN Outcome(st, h, m, << >>, Raise("ValueError"))
    ELSE LET \* the single-year branch is the loop over one year
             all == by_range_loop(st, h, m, cttl, date_year(from_date), date_year(to_date),
                                  t, responses, << >>, << >>)
         IN  IF all.result.kind # "value" THEN all
             ELSE [all EXCEPT !.result =
                      Some(FilterRange(all.result.v, strftime(from_date), strftime(to_date)))]

\* HudyClient.get_business_days(from_date, to_date)
get_business_days_outcome(st, h, m, cttl, from_date, to_date, t, responses) ==
    IF from_date > to_date THEN Outcome(st, h, m, << >>, Raise("ValueError"))
    ELSE LET holidays == get_holidays_by_range_outcome(st, h, m, cttl, from_date, to_date,
                                                       t, responses)
         IN  IF holidays.result.kind # "value" THEN holidays
             ELSE [holidays EXCEPT !.result =
                      count_business_days({holidays.result.v[i].date :
                                              i \in 1..Len(holidays.result.v)},
                                          from_date, to_date)]

\* HudyClient(api_key, cache={"enabled": True, "ttl": ...})
ClientInit ==
    /\ store = << >>
    /\ hits = 0
    /\ misses = 0
    /\ custom_ttl \in ClientTTLs
    /\ now = StartTime
    /\ ret = Return("init", 0, None, "none")
    /\ gets = 0
    /\ written = [y \in Years |-> NoWrite]
    /\ pending = None
    /\ ticks = 0
    /\ holiday_set = {}
    /\ calc_ret = CalcReturn("init", << >>, None)
    /\ asked = << >>
    /\ NoRequestYet
    /\ threads = << >>
    /\ walk = [pc |-> "idle"]

\* a whole client call ends: the cache it leaves, its lookups, its result
Completes(op, arg, out) ==
    /\ gets + Len(out.asked) <= MaxLookups
    /\ store' = out.store
    /\ hits' = out.hits
    /\ misses' = out.misses
    /\ asked' = out.asked
    /\ gets' = gets + Len(out.asked)
    /\ ret' = Return(op, arg, out.result, "none")
    /\ UNCHANGED << custom_ttl, now, written, pending, ticks, holiday_set, calc_ret,
                    request_vars, threads, walk >>

call_get_holidays(year, response) ==
    \E out \in {get_holidays_outcome(store, hits, misses, custom_ttl, year, now, response)} :
       Completes("get_holidays", year, out)

call_get_holidays_by_range(from_date, to_date, responses) ==
    \E out \in {get_holidays_by_range_outcome(store, hits, misses, custom_ttl,
                                              from_date, to_date, now, responses)} :
       Completes("get_holidays_by_range", << from_date, to_date >>, out)

call_get_business_days(from_date, to_date, responses) ==
    \E out \in {get_business_days_outcome(store, hits, misses, custom_ttl,
                                          from_date, to_date, now, responses)} :
       Completes("get_business_days", << from_date, to_date >>, out)

\* HudyClient.clear_cache
call_clear_cache ==
    /\ store' = << >>
    /\ hits' = 0
    /\ misses' = 0
    /\ gets' = 0
    /\ asked' = << >>
    /\ ret' = Return("clear_cache", 0, None, "none")
    /\ UNCHANGED << custom_ttl, now, written, pending, ticks, holiday_set, calc_ret,
                    request_vars, threads, walk >>

\* the wall clock moves on to a later reading
Elapse(t) ==
    /\ t > now
    /\ now' = t
    /\ UNCHANGED << store, hits, misses, custom_ttl, ret, gets, written, pending, ticks,
                    holiday_set, calc_ret, asked, request_vars, threads, walk >>

ClientNext ==
    \/ \E t \in ClockReadings : Elapse(t)
    \/ \E year \in YearArgs, response \in Responses : call_get_holidays(year, response)
    \/ \E r \in ClientRangeArgs, responses \in [Years -> Responses] :
          call_get_holidays_by_range(r[1], r[2], responses)
    \/ \E r \in ClientRangeArgs, responses \in [Years -> Responses] :
          call_get_business_days(r[1], r[2], responses)
    \/ call_clear_cache

ClientSpec == ClientInit /\ [][ClientNext]_vars

\* ------------------------------------------- HudyClient, one request at a time
\* HudyError(message, code, status_code, retryable); status_code 0 stands for None
HudyError(code, status_code, retryable) ==
    [kind |-> "error", type |-> "HudyError", code |-> code,
     status_code |-> status_code, retryable |-> retryable]

\* variant: status 500 itself is not retried
from_response_above_500(status) ==
    IF status = 401 THEN HudyError("UNAUTHORIZED", status, FALSE)
    ELSE IF status = 403 THEN HudyError("FORBIDDEN", status, FALSE)
    ELSE IF status = 404 THEN HudyError("NOT_FOUND", status, FALSE)
    ELSE IF status = 429 THEN HudyError("RATE_LIMITED", status, TRUE)
    ELSE IF status = 400 THEN HudyError("BAD_REQUEST", status, FALSE)
    ELSE HudyError("INTERNAL_ERROR", status, status > 500)

from_response(status) ==
    IF status = 401 THEN HudyError("UNAUTHORIZED", status, FALSE)
    ELSE IF status = 403 THEN HudyError("FORBIDDEN", status, FALSE)
    ELSE IF status = 404 THEN HudyError("NOT_FOUND", status, FALSE)
    ELSE IF status = 429 THEN HudyError("RATE_LIMITED", status, TRUE)
    ELSE IF status = 400 THEN HudyError("BAD_REQUEST", status, FALSE)
    ELSE HudyError("INTERNAL_ERROR", status, status >= 500)

network_error == HudyError("NETWORK_ERROR", 0, TRUE)

timeout == HudyError("TIMEOUT", 0, TRUE)

\* variant: an invalid response is worth another attempt
invalid_response_retryable == HudyError("INVALID_RESPONSE", 0, TRUE)

invalid_response == HudyError("INVALID_RESPONSE", 0, FALSE)

\* what self._client.get(url) does: it raises, or it returns a response with a
\* status code and a body that is no JSON, a success envelope, an error
\* envelope, or some other JSON
Wire(transport, status, body, data) ==
    [transport |-> transport, status |-> status, body |-> body, data |-> data]

Statuses == {200, 400, 401, 403, 404, 429, 499, 500}

WireResponses ==
    {Wire(t, 0, "none", << >>) : t \in {"TimeoutException", "HTTPError", "Exception"}}
    \cup {Wire("response", s, b, << >>) : s \in Statuses, b \in {"not_json", "error", "other_json"}}
    \cup {Wire("response", s, "success", d) : s \in Statuses, d \in HolidayLists}

is_success(status) == 200 <= status /\ status <= 299

\* HudyClient._execute_request
execute_request(wire) ==
    IF wire.transport = "TimeoutException" THEN timeout
    ELSE IF wire.transport \in {"HTTPError", "Exception"} THEN network_error
    ELSE IF wire.body = "not_json" THEN invalid_response
    ELSE IF wire.body = "success" THEN Some(wire.data)
    ELSE IF wire.body = "error" THEN from_response(wire.status)
    ELSE IF ~is_success(wire.status) THEN from_response(wire.status)
    ELSE invalid_response

RetryOptions(enabled, max_retries, initial_delay, max_delay, backoff_factor) ==
    [enabled |-> enabled, max_retries |-> max_retries, initial_delay |-> initial_delay,
     max_delay |-> max_delay, backoff_factor |-> backoff_factor]

\* delays in seconds: the defaults, and a first delay above the cap
DelayOptions == {<< 1, 10, 2 >>, << 20, 10, 2 >>}

RetryConfigs ==
    {RetryOptions(enabled, max_retries, d[1], d[2], d[3]) :
        enabled \in BOOLEAN, max_retries \in -1..MaxRetries, d \in DelayOptions}

min(a, b) == IF a <= b THEN a ELSE b

\* variant: range(max_retries), the retries without the initial attempt
range_stop_retries_only(options) == options.max_retries

\* for attempt in range(max_retries + 1)
range_stop(options) == options.max_retries + 1

RetryInit ==
    /\ store = << >>
    /\ hits = 0
    /\ misses = 0
    /\ custom_ttl = None
    /\ now = StartTime
    /\ ret = Return("init", 0, None, "none")
    /\ gets = 0
    /\ written = [y \in Years |-> NoWrite]
    /\ pending = None
    /\ ticks = 0
    /\ holiday_set = {}
    /\ calc_ret = CalcReturn("init", << >>, None)
    /\ asked = << >>
    /\ retry \in RetryConfigs
    /\ pc = "idle"
    /\ attempt = 0
    /\ delay = 0
    /\ last_error = None
    /\ calls = << >>
    /\ slept = << >>
    /\ outcome = None
    /\ threads = << >>
    /\ walk = [pc |-> "idle"]

\* the request ends: it returns a list or an exception leaves it
Ends(result) ==
    /\ pc' = "done"
    /\ outcome' = result

\* HudyClient._request, up to the first attempt
request ==
    /\ pc \in {"idle", "done"}
    /\ calls' = << >>
    /\ slept' = << >>
    /\ outcome' = None
    /\ attempt' = 0
    /\ last_error' = None
    /\ IF retry.enabled
       THEN /\ delay' = retry.initial_delay
            /\ pc' = IF 0 < range_stop(retry) THEN "attempt" ELSE "exhausted"
       ELSE /\ delay' = 0
            /\ pc' = "attempt"
    /\ UNCHANGED << retry, cache_vars, threads, walk >>

\* one pass of the loop body of _request_with_retry, or the single
\* _execute_request of a client without retry
attempt_request(wire) ==
    /\ pc = "attempt"
    /\ \E result \in {execute_request(wire)} :
          /\ calls' = Append(calls, result)
          /\ IF ~retry.enabled \/ result.kind = "value" \/ ~result.retryable
             THEN /\ Ends(result)
                  /\ UNCHANGED << attempt, last_error >>
             ELSE /\ last_error' = result
                  /\ outcome' = outcome
                  /\ IF attempt < retry.max_retries
                     THEN /\ pc' = "sleep"
                          /\ attempt' = attempt
                     ELSE /\ attempt' = attempt + 1
                          /\ pc' = IF attempt + 1 < range_stop(retry) THEN "attempt"
                                   ELSE "exhausted"
    /\ UNCHANGED << retry, delay, slept, cache_vars, threads, walk >>

\* time.sleep(delay), the next delay, and the step to the next pass
sleep ==
    /\ pc = "sleep"
    /\ slept' = Append(slept, delay)
    /\ delay' = min(delay * retry.backoff_factor, retry.max_delay)
    /\ attempt' = attempt + 1
    /\ pc' = IF attempt + 1 < range_stop(retry) THEN "attempt" ELSE "exhausted"
    /\ UNCHANGED << retry, last_error, calls, outcome, cache_vars, threads, walk >>

\* raise last_error after the loop; raising None is a TypeError
raise_last_error ==
    /\ pc = "exhausted"
    /\ Ends(IF last_error = None THEN Raise("TypeError") ELSE last_error)
    /\ UNCHANGED << retry, attempt, delay, last_error, calls, slept, cache_vars, threads, walk >>

RetryNext ==
    \/ request
    \/ \E wire \in WireResponses : attempt_request(wire)
    \/ sleep
    \/ raise_last_error

RetrySpec == RetryInit /\ [][RetryNext]_vars

\* ------------------------------------- two threads on one client, by statement
Threads == {1, 2}

\* a thread: the call it is in, the statement it stands before, and the local
\* variables of SmartCache.get / set / prune and HudyClient.get_holidays
Thread(op, at, year, entry, holidays, expires_at, keys, result, made) ==
    [op |-> op, at |-> at, year |-> year, entry |-> entry, holidays |-> holidays,
     expires_at |-> expires_at, keys |-> keys, result |-> result, made |-> made]

\* a thread in no call: what its last call gave and how many calls it has made
Idle(result, made) == Thread("none", "idle", 0, None, << >>, 0, << >>, result, made)

RECURSIVE CallsMade(_, _)
\* the number of calls the threads in T have begun
CallsMade(ths, T) ==
    IF T = {} THEN 0
    ELSE LET t == CHOOSE u \in T : TRUE IN ths[t].made + CallsMade(ths, T \ {t})

\* nothing but the cache, the clock and the threads changes
OnlyCacheAndThreads ==
    UNCHANGED << custom_ttl, ret, gets, pending, ticks, holiday_set, calc_ret, asked,
                 request_vars, walk >>

ThreadInit ==
    /\ store = << >>
    /\ hits = 0
    /\ misses = 0
    /\ custom_ttl \in ClientTTLs
    /\ now = StartTime
    /\ ret = Return("init", 0, None, "none")
    /\ gets = 0
    /\ written = [y \in Years |-> NoWrite]
    /\ pending = None
    /\ ticks = 0
    /\ holiday_set = {}
    /\ calc_ret = CalcReturn("init", << >>, None)
    /\ asked = << >>
    /\ NoRequestYet
    /\ threads = [t \in Threads |-> Idle(None, 0)]
    /\ walk = [pc |-> "idle"]

\* the thread goes to statement `at`
Goes(t, at) == threads' = [threads EXCEPT ![t].at = at]

\* the thread's call ends with result: a returned value or a raised exception
Finishes(t, result) ==
    threads' = [threads EXCEPT ![t] = Idle(result, threads[t].made)]

\* a thread calls HudyClient.get_holidays(year), prune_cache() or clear_cache()
begin(t, op, year) ==
    /\ threads[t].at = "idle"
    /\ CallsMade(threads, Threads) < MaxCalls
    /\ threads' = [threads EXCEPT ![t] =
                      Thread(op, CASE op = "get_holidays" -> "get_entry"
                                   [] op = "prune" -> "collect"
                                   [] op = "clear" -> "clear_store",
                             year, None, << >>, 0, << >>, None, threads[t].made + 1)]
    /\ UNCHANGED << store, hits, misses, now, written >>
    /\ OnlyCacheAndThreads

\* SmartCache.get: entry = self._store.get(key); if not entry
get_entry(t) ==
    /\ threads[t].at = "get_entry"
    /\ LET key == _get_year_key(threads[t].year) IN
       IF key \in DOMAIN store
       THEN threads' = [threads EXCEPT ![t].entry = Some(store[key]), ![t].at = "check_expired"]
       ELSE Goes(t, "count_miss")
    /\ UNCHANGED << store, hits, misses, now, written >>
    /\ OnlyCacheAndThreads

\* SmartCache.get: if time.time() > entry.expires_at
check_expired(t) ==
    /\ threads[t].at = "check_expired"
    /\ Goes(t, IF Expired(threads[t].entry.v, now) THEN "del_entry" ELSE "count_hit")
    /\ UNCHANGED << store, hits, misses, now, written >>
    /\ OnlyCacheAndThreads

\* what `del self._store[key]` does for the thread: KeyError ends its call
delete_item(t, key, at) ==
    IF del_item_raised(store, key) # None
    THEN /\ Finishes(t, del_item_raised(store, key))
         /\ store' = store
    ELSE /\ Goes(t, at)
         /\ store' = Without(store, key)

\* SmartCache.get: del self._store[key]
del_entry(t) ==
    /\ threads[t].at = "del_entry"
    /\ delete_item(t, _get_year_key(threads[t].year), "count_miss")
    /\ UNCHANGED << hits, misses, now, written >>
    /\ OnlyCacheAndThreads

\* variant: a caller whose lookup missed waits while another caller's fetch of
\* the same year is outstanding
after_miss_deduplicated(ths, t) ==
    IF \E u \in Threads \ {t} : ths[u].at = "request" /\ ths[u].year = ths[t].year
    THEN "wait" ELSE "request"

\* HudyClient.get_holidays after a lookup that gave nothing: the request is issued
after_miss(ths, t) == "request"

\* SmartCache.get: self._misses += 1; return None, and in get_holidays `if cached:`
count_miss(t) ==
    /\ threads[t].at = "count_miss"
    /\ misses' = misses + 1
    /\ Goes(t, after_miss(threads, t))
    /\ UNCHANGED << store, hits, now, written >>
    /\ OnlyCacheAndThreads

\* SmartCache.get: self._hits += 1; return entry.data, and in get_holidays
\* `if cached: return cached`
count_hit(t) ==
    /\ threads[t].at = "count_hit"
    /\ hits' = hits + 1
    /\ IF threads[t].entry.v.data # << >>
       THEN Finishes(t, Some(threads[t].entry.v.data))
       ELSE Goes(t, after_miss(threads, t))
    /\ UNCHANGED << store, misses, now, written >>
    /\ OnlyCacheAndThreads

\* HudyClient.get_holidays: holidays = self._request(url), the service answers
request_returns(t, holidays) ==
    /\ threads[t].at = "request"
    /\ threads' = [threads EXCEPT ![t].holidays = holidays, ![t].at = "set_expires_at"]
    /\ UNCHANGED << store, hits, misses, now, written >>
    /\ OnlyCacheAndThreads

\* SmartCache.set: ttl = self._get_ttl(year); expires_at = time.time() + ttl
set_expires_at(t) ==
    /\ threads[t].at = "set_expires_at"
    /\ threads' = [threads EXCEPT ![t].expires_at = now + _get_ttl(custom_ttl, threads[t].year, now),
                                  ![t].at = "set_entry"]
    /\ UNCHANGED << store, hits, misses, now, written >>
    /\ OnlyCacheAndThreads

\* variant: an existing entry object is updated in place, data only
assign_entry_data_only(st, key, holidays, expires_at) ==
    IF key \in DOMAIN st THEN With(st, key, CacheEntry(holidays, st[key].expires_at))
    ELSE With(st, key, CacheEntry(holidays, expires_at))

\* self._store[key] = CacheEntry(holidays, expires_at)
assign_entry(st, key, holidays, expires_at) == With(st, key, CacheEntry(holidays, expires_at))

\* SmartCache.set: the assignment to the mapping, and get_holidays returns
set_entry(t) ==
    /\ threads[t].at = "set_entry"
    /\ store' = assign_entry(store, _get_year_key(threads[t].year), threads[t].holidays,
                             threads[t].expires_at)
    /\ written' = [written EXCEPT ![threads[t].year] =
                      Wrote(threads[t].holidays, threads[t].expires_at)]
    /\ Finishes(t, Some(threads[t].holidays))
    /\ UNCHANGED << hits, misses, now >>
    /\ OnlyCacheAndThreads

\* SmartCache.prune: now = time.time(); to_remove = [key for key, entry in ...]
collect(t) ==
    /\ threads[t].at = "collect"
    /\ \E order \in ItemOrders([key \in to_remove(store, now) |-> 0]) :
          IF order = << >> THEN Finishes(t, Some(0))
          ELSE threads' = [threads EXCEPT ![t].keys = order, ![t].at = "delete"]
    /\ UNCHANGED << store, hits, misses, now, written >>
    /\ OnlyCacheAndThreads

\* SmartCache.prune: one pass of `for key in to_remove: del self._store[key]`;
\* expires_at holds the number of keys deleted so far, returned after the last
delete(t) ==
    /\ threads[t].at = "delete"
    /\ LET done == threads[t].expires_at + 1 IN
       IF del_item_raised(store, threads[t].keys[done]) # None
       THEN /\ Finishes(t, del_item_raised(store, threads[t].keys[done]))
            /\ store' = store
       ELSE /\ store' = Without(store, threads[t].keys[done])
            /\ IF done = Len(threads[t].keys) THEN Finishes(t, Some(done))
               ELSE threads' = [threads EXCEPT ![t].expires_at = done]
    /\ UNCHANGED << hits, misses, now, written >>
    /\ OnlyCacheAndThreads

\* SmartCache.clear: self._store.clear()
clear_store(t) ==
    /\ threads[t].at = "clear_store"
    /\ store' = << >>
    /\ written' = [y \in Years |-> NoWrite]
    /\ Goes(t, "clear_hits")
    /\ UNCHANGED << hits, misses, now >>
    /\ OnlyCacheAndThreads

\* SmartCache.clear: self._hits = 0
clear_hits(t) ==
    /\ threads[t].at = "clear_hits"
    /\ hits' = 0
    /\ Goes(t, "clear_misses")
    /\ UNCHANGED << store, misses, now, written >>
    /\ OnlyCacheAndThreads

\* SmartCache.clear: self._misses = 0, and clear_cache returns
clear_misses(t) ==
    /\ threads[t].at = "clear_misses"
    /\ misses' = 0
    /\ Finishes(t, None)
    /\ UNCHANGED << store, hits, now, written >>
    /\ OnlyCacheAndThreads

ThreadNext ==
    \/ \E t \in ClockReadings : Elapse(t)
    \/ \E t \in Threads, year \in Years : begin(t, "get_holidays", year)
    \/ \E t \in Threads : begin(t, "prune", 0)
    \/ \E t \in Threads : begin(t, "clear", 0)
    \/ \E t \in Threads : get_entry(t)
    \/ \E t \in Threads : check_expired(t)
    \/ \E t \in Threads : del_entry(t)
    \/ \E t \in Threads : count_miss(t)
    \/ \E t \in Threads : count_hit(t)
    \/ \E t \in Threads, holidays \in HolidayLists : request_returns(t, holidays)
    \/ \E t \in Threads : set_expires_at(t)
    \/ \E t \in Threads : set_entry(t)
    \/ \E t \in Threads : collect(t)
    \/ \E t \in Threads : delete(t)
    \/ \E t \in Threads : clear_store(t)
    \/ \E t \in Threads : clear_hits(t)
    \/ \E t \in Threads : clear_misses(t)

ThreadSpec == ThreadInit /\ [][ThreadNext]_vars

\* ------------------------------- BusinessDayCalculator, one loop pass at a time
\* the scan in progress: the method, its arguments and its locals current, added
Walk(at, op, from_date, days, current, added) ==
    [pc |-> at, op |-> op, from_date |-> from_date, days |-> days, current |-> current,
     added |-> added]

\* `1 if days > 0 else -1`, and the direction the two searches step in
direction(w) ==
    IF w.op = "get_previous_business_day" THEN -1
    ELSE IF w.op = "get_next_business_day" THEN 1
    ELSE IF w.days > 0 THEN 1 ELSE -1

\* variant: the scan does not leave a holiday it stands on
advance_unless_holiday(S, current, dir) ==
    IF strftime(current) \in S THEN current ELSE add_days(current, dir)

\* current = add_days(current, direction)
advance(S, current, dir) == add_days(current, dir)

\* a scan method is called: the statements before its while loop; the methods
\* keep no state between two calls, so one call is followed to its end
walk_begin(op, from_date, days) ==
    /\ walk.pc = "idle"
    /\ walk' = IF op = "add_business_days"
               THEN Walk(IF days = 0 THEN "done" ELSE "loop", op, from_date, days, from_date, 0)
               ELSE Walk("loop", op, from_date, 0,
                         add_days(from_date, IF op = "get_next_business_day" THEN 1 ELSE -1), 0)
    /\ UNCHANGED << cache_vars, request_vars, threads >>

\* the loop test and, when it holds, one pass of the loop body; the method
\* returns current when the test fails
walk_step ==
    /\ walk.pc = "loop"
    /\ \E current \in {advance(holiday_set, walk.current, direction(walk))} :
          walk' =
             IF walk.op = "add_business_days"
             THEN IF walk.added < abs(walk.days)
                  THEN [walk EXCEPT !.current = current,
                                    !.added = IF is_business_day(holiday_set, current)
                                              THEN walk.added + 1 ELSE walk.added]
                  ELSE [walk EXCEPT !.pc = "done"]
             ELSE IF ~is_business_day(holiday_set, walk.current)
                  THEN [walk EXCEPT !.current = current]
                  ELSE [walk EXCEPT !.pc = "done"]
    /\ UNCHANGED << cache_vars, request_vars, threads >>

WalkNext ==
    \/ \E from_date \in Window : walk_begin("get_next_business_day", from_date, 0)
    \/ \E from_date \in Window : walk_begin("get_previous_business_day", from_date, 0)
    \/ \E from_date \in Window, days \in (-MaxDays)..MaxDays :
          walk_begin("add_business_days", from_date, days)
    \/ walk_step

\* a method that has been called keeps running: its next loop pass is taken
WalkSpec == CalculatorInit /\ [][WalkNext]_vars /\ WF_vars(walk_step)

\* ------------------------------ HudyClient, the business-day calls, whole calls
\* the years the service has data for in these calls, and its complete list for
\* each: holidays on every weekday from 2025-12-25 to 2026-01-09
ServiceYears == {2025, 2026, 2100}
Calendar(y) ==
    IF y = 2025
    THEN << hChristmas, Holiday("h3", 2025, 12, 26), Holiday("h5", 2025, 12, 29),
            Holiday("h7", 2025, 12, 30), Holiday("h8", 2025, 12, 31) >>
    ELSE IF y = 2026
    THEN << hNewYear, Holiday("h6", 2026, 1, 2), Holiday("h9", 2026, 1, 5),
            Holiday("h10", 2026, 1, 6), Holiday("h11", 2026, 1, 7),
            Holiday("h12", 2026, 1, 8), Holiday("h13", 2026, 1, 9) >>
    ELSE << Holiday("h14", y, 1, 1) >>
\* what the service answers, year by year, during one call: the year's list or a
\* failure; a call ends with the first failure, so one failing year is enough
ServiceResponses == {[y \in ServiceYears |-> y # down] : down \in {0, 2025, 2026}}
ResponseOf(ok, y) ==
    IF y \in DOMAIN ok /\ ok[y] THEN Some(Calendar(y)) ELSE Raise("HudyError")
\* the dates passed to the business-day calls: a Monday in June and the Wednesday
\* before the run of holidays; get_next_business_day is also given the last day
\* of the last supported year
BusinessDates == {Date(2025, 6, 2), Date(2025, 12, 24)}
NextDates == BusinessDates \cup {Date(MAX_YEAR, 12, 31)}
\* the (from_date, to_date) passed to get_holidays_by_range and get_business_days
BusinessRange == << Date(2025, 12, 26), Date(2026, 1, 1) >>
\* the `days` passed to add_business_days
DayCounts == (-1)..1

\* `{h.date for h in holidays}`, the set a BusinessDayCalculator is built with
DateSetOf(holidays) == {holidays[i].date : i \in 1..Len(holidays)}

\* a list object: the cache key whose entry holds this very object (None for a
\* list only the caller holds) and its items
ListObject(cell, items) == [cell |-> cell, items |-> items]
\* variant: the caller goes on with the list get_holidays returned
same_list(x) == x
\* `list(x)`: a new list object with the items of x
list(x) == ListObject(None, x.items)
\* `x.extend(more)` with the cache mapping st: the object grows, and with it the
\* cache entry whose data it is
extend(st, x, more) ==
    [store |-> IF x.cell # None /\ x.cell.v \in DOMAIN st
               THEN [st EXCEPT ![x.cell.v].data = @ \o more]
               ELSE st,
     list |-> ListObject(x.cell, x.items \o more)]

\* HudyClient.is_holiday(check_date)
is_holiday_outcome(st, h, m, cttl, check_date, t, ok) ==
    LET year == date_year(check_date)
        holidays == get_holidays_outcome(st, h, m, cttl, PyInt(year), t, ResponseOf(ok, year))
    IN  IF holidays.result.kind # "value" THEN holidays
        ELSE [holidays EXCEPT !.result =
                 Some(\E i \in 1..Len(holidays.result.v) :
                         holidays.result.v[i].date = strftime(check_date))]

\* HudyClient.is_business_day(check_date)
is_business_day_outcome(st, h, m, cttl, check_date, t, ok) ==
    LET year == date_year(check_date)
        holidays == get_holidays_outcome(st, h, m, cttl, PyInt(year), t, ResponseOf(ok, year))
    IN  IF holidays.result.kind # "value" THEN holidays
        ELSE [holidays EXCEPT !.result =
                 Some(is_business_day(DateSetOf(holidays.result.v), check_date))]

\* `for _ in range(366)`: does check_date, a day later with each pass, reach a
\* year after `year` within the `passes` passes of the loop
leaves_year(check_date, year, passes) ==
    \E pass \in 1..passes : date_year(check_date + pass) > year

\* HudyClient.get_next_business_day(from_date)
get_next_business_day_outcome(st, h, m, cttl, from_date, t, ok) ==
    LET year == date_year(from_date)
        first == get_holidays_outcome(st, h, m, cttl, PyInt(year), t, ResponseOf(ok, year))
    IN  IF first.result.kind # "value" THEN first
        ELSE LET holidays == list(ListObject(Some(_get_year_key(year)), first.result.v))
             IN  IF ~leaves_year(from_date, year, 366)
                 THEN [first EXCEPT !.result =
                          get_next_business_day(DateSetOf(holidays.items), from_date)]
                 ELSE LET next == get_holidays_outcome(first.store, first.hits, first.misses,
                                                       cttl, PyInt(year + 1), t,
                                                       ResponseOf(ok, year + 1))
                          lookups == first.asked \o next.asked
                      IN  IF next.result.kind # "value"
                          THEN Outcome(next.store, next.hits, next.misses, lookups,
                                       next.result)
                          ELSE LET all == extend(next.store, holidays, next.result.v)
                               IN  Outcome(all.store, next.hits, next.misses, lookups,
                                           get_next_business_day(DateSetOf(all.list.items),
                                                                 from_date))

\* `int(abs(days) * 1.4) + 14`; the whole-number quotient is int(abs(days) * 1.4)
\* for every abs(days) below 45
estimated_days(days) == (abs(days) * 14) \div 10 + 14

\* HudyClient.add_business_days(from_date, days)
add_business_days_outcome(st, h, m, cttl, from_date, days, t, ok) ==
    IF days = 0 THEN Outcome(st, h, m, << >>, Some(from_date))
    ELSE LET toward == IF days > 0 THEN 1 ELSE -1
             estimated_end == from_date + estimated_days(days) * toward
             start_date == IF toward > 0 THEN from_date ELSE estimated_end
             end_date == IF toward > 0 THEN estimated_end ELSE from_date
             holidays == get_holidays_by_range_outcome(
                             st, h, m, cttl, start_date, end_date, t,
                             [y \in date_year(start_date)..date_year(end_date) |->
                                 ResponseOf(ok, y)])
         IN  IF holidays.result.kind # "value" THEN holidays
             ELSE [holidays EXCEPT !.result =
                      add_business_days(DateSetOf(holidays.result.v), from_date, days)]

\* HudyClient(api_key), the cache enabled with its year-based TTLs
BusinessInit ==
    /\ store = << >>
    /\ hits = 0
    /\ misses = 0
    /\ custom_ttl = None
    /\ now = StartTime
    /\ ret = Return("init", 0, None, "none")
    /\ gets = 0
    /\ written = [y \in ServiceYears |-> NoWrite]
    /\ pending = None
    /\ ticks = 0
    /\ holiday_set = {}
    /\ calc_ret = CalcReturn("init", << >>, None)
    /\ asked = << >>
    /\ NoRequestYet
    /\ threads = << >>
    /\ walk = [pc |-> "idle"]

\* a whole client call ends: the cache it leaves, its lookups, its result, and
\* for every year it fetched with success the list the service answered
Fetches(op, arg, out, ok) ==
    /\ gets + Len(out.asked) <= MaxFetches
    /\ store' = out.store
    /\ hits' = out.hits
    /\ misses' = out.misses
    /\ asked' = out.asked
    /\ gets' = gets + Len(out.asked)
    /\ ret' = Return(op, arg, out.result, "none")
    /\ written' = [y \in ServiceYears |->
                      IF ok[y] /\ \E i \in 1..Len(out.asked) : out.asked[i] = Asked(y, "service")
                      THEN Wrote(Calendar(y), now + _get_ttl(custom_ttl, y, now))
                      ELSE written[y]]
    /\ UNCHANGED << custom_ttl, now, pending, ticks, holiday_set, calc_ret,
                    request_vars, threads, walk >>

fetch_holidays(year, ok) ==
    \E out \in {get_holidays_outcome(store, hits, misses, custom_ttl, PyInt(year), now,
                                     ResponseOf(ok, year))} :
       Fetches("get_holidays", year, out, ok)

fetch_holidays_by_range(from_date, to_date, ok) ==
    \E out \in {get_holidays_by_range_outcome(store, hits, misses, custom_ttl, from_date,
                                              to_date, now,
                                              [y \in ServiceYears |-> ResponseOf(ok, y)])} :
       Fetches("get_holidays_by_range", << from_date, to_date >>, out, ok)

fetch_business_days(from_date, to_date, ok) ==
    \E out \in {get_business_days_outcome(store, hits, misses, custom_ttl, from_date,
                                          to_date, now,
                                          [y \in ServiceYears |-> ResponseOf(ok, y)])} :
       Fetches("get_business_days", << from_date, to_date >>, out, ok)

call_is_holiday(check_date, ok) ==
    \E out \in {is_holiday_outcome(store, hits, misses, custom_ttl, check_date, now, ok)} :
       Fetches("is_holiday", check_date, out, ok)

call_is_business_day(check_date, ok) ==
    \E out \in {is_business_day_outcome(store, hits, misses, custom_ttl, check_date, now,
                                        ok)} :
       Fetches("is_business_day", check_date, out, ok)

call_get_next_business_day(from_date, ok) ==
    \E out \in {get_next_business_day_outcome(store, hits, misses, custom_ttl, from_date,
                                              now, ok)} :
       Fetches("get_next_business_day", from_date, out, ok)

call_add_business_days(from_date, days, ok) ==
    \E out \in {add_business_days_outcome(store, hits, misses, custom_ttl, from_date, days,
                                          now, ok)} :
       Fetches("add_business_days", << from_date, days >>, out, ok)

BusinessNext ==
    \/ \E t \in ClockReadings : Elapse(t)
    \/ \E year \in Years, ok \in ServiceResponses : fetch_holidays(year, ok)
    \/ \E ok \in ServiceResponses :
          fetch_holidays_by_range(BusinessRange[1], BusinessRange[2], ok)
    \/ \E ok \in ServiceResponses :
          fetch_business_days(BusinessRange[1], BusinessRange[2], ok)
    \/ \E d \in BusinessDates, ok \in ServiceResponses : call_is_holiday(d, ok)
    \/ \E d \in BusinessDates, ok \in ServiceResponses : call_is_business_day(d, ok)
    \/ \E d \in NextDates, ok \in ServiceResponses : call_get_next_business_day(d, ok)
    \/ \E d \in BusinessDates, days \in DayCounts, ok \in ServiceResponses :
          call_add_business_days(d, days, ok)

BusinessSpec == BusinessInit /\ [][BusinessNext]_vars

\* ------------------------------------------------------------------ claims
Size(st) == Cardinality(DOMAIN st)
HasEntry(st, year) == _get_year_key(year) \in DOMAIN st
EntryOf(st, year) == st[_get_year_key(year)]
\* every entry of st other than year's is in st2 with the same contents
OthersKept(st, st2, year) ==
    \A k \in (DOMAIN st) \ {_get_year_key(year)} : k \in DOMAIN st2 /\ st2[k] = st[k]

\* C1: after set(Y, H), every get(Y) made while now <= expiresAt, with no
\* set(Y) or clear in between, returns exactly H, same elements in the same order.
C1_GetAfterSet ==
    [][\A y \in Years :
        (get(y) /\ written[y].valid /\ now <= written[y].expires_at)
            => ret'.value = Some(written[y].data)]_vars

\* a get at exactly now = expiresAt, after the clock moved, returned the unsorted list
C1_Witness ==
    /\ ret.op = "get"
    /\ ret.value = Some(<<hNewYear, hChristmas>>)
    /\ written[ret.arg].valid
    /\ now = written[ret.arg].expires_at
    /\ ticks > 0

\* C2: no stale data: a get(Y), or a get_holidays(Y) answered by the cache,
\* never returns the stored sequence when now > expiresAt of Y's entry; the
\* get returns nothing and the client goes to the service.
C2_NeverStale ==
    [][\A y \in Years :
        (HasEntry(store, y) /\ now > EntryOf(store, y).expires_at)
            => /\ get(y) => ret'.value = None
               /\ get_holidays(y) => (pending' = Some(y) /\ ret' = ret)]_vars

\* a get read an entry after its expiresAt and returned nothing
C2_Witness ==
    /\ ret.op = "get"
    /\ ret.value = None
    /\ written[ret.arg].valid
    /\ written[ret.arg].data # << >>
    /\ now > written[ret.arg].expires_at
    /\ misses = 1
    /\ hits = 0

\* C3: expiration is lazy and per key: a get(Y) that finds Y expired removes
\* exactly Y's entry (size drops by 1); any other year's entry, expired or not,
\* stays until its own get, a prune or a clear.
C3_LazyPerKey ==
    [][/\ \A y \in Years :
            (get(y) /\ HasEntry(store, y) /\ now > EntryOf(store, y).expires_at)
                => /\ ~HasEntry(store', y)
                   /\ Size(store') = Size(store) - 1
                   /\ OthersKept(store, store', y)
       /\ \A y \in Years :
            (HasEntry(store, y) /\ ~HasEntry(store', y))
                => \/ get(y) \/ get_holidays(y) \/ prune \/ clear
                   \* get_range looks the years of its range up with get
                   \/ \E r \in RangeArgs : /\ y \in date_year(r[1])..date_year(r[2])
                                           /\ get_range(r[1], r[2])]_vars

\* a get removed its own expired entry and another expired entry is still stored
C3_Witness ==
    /\ ret.op = "get"
    /\ ret.value = None
    /\ written[ret.arg].valid
    /\ ~HasEntry(store, ret.arg)
    /\ \E y \in Years : HasEntry(store, y) /\ now > EntryOf(store, y).expires_at

\* C4: every get increments exactly one counter by exactly 1: hits iff it
\* returns the stored sequence, misses iff it returns nothing; so hits + misses
\* is the number of get calls since construction or the last clear.
C4_OneCounterPerGet ==
    /\ [](hits + misses = gets)
    /\ [][\A y \in Years :
            get(y) => \/ ret'.value # None /\ hits' = hits + 1 /\ misses' = misses
                      \/ ret'.value = None /\ hits' = hits /\ misses' = misses + 1]_vars

\* a hit and then a miss on the expired entry have both been counted
C4_Witness ==
    /\ ret.op = "get"
    /\ ret.value = None
    /\ written[ret.arg].valid
    /\ now > written[ret.arg].expires_at
    /\ hits = 1
    /\ misses = 1
    /\ gets = 2

\* C5: set(Y, H) overwrites unconditionally: afterwards there is one entry for
\* Y, its data is H and its expiresAt is now + ttl(Y), whether or not an entry
\* existed or was expired; all other entries are unchanged.
C5_SetOverwrites ==
    [][\A y \in Years, h \in HolidayLists :
        set(y, h)
            => /\ HasEntry(store', y)
               /\ EntryOf(store', y).data = h
               /\ EntryOf(store', y).expires_at = now + _get_ttl(custom_ttl, y, now)
               /\ DOMAIN store' = (DOMAIN store) \cup {_get_year_key(y)}
               /\ OthersKept(store, store', y)]_vars

\* a set replaced an expired entry while another year's entry was stored
C5_Witness ==
    /\ ret.op = "set"
    /\ ret.note = "over_expired"
    /\ Size(store) = 2
    /\ EntryOf(store, ret.arg).expires_at >= now

\* C6: without an override, the TTL of set(Y, .) is decided by Y against the
\* calendar year at the time of the set: 365 days before it, 1 day in it,
\* 7 days after it; expiresAt - now is that value.
C6_YearTiers ==
    [][\A y \in Years, h \in HolidayLists :
        (set(y, h) /\ custom_ttl = None)
            => EntryOf(store', y).expires_at - now =
                 (IF y < current_year(now) THEN 365 * 86400
                  ELSE IF y = current_year(now) THEN 86400
                  ELSE 7 * 86400)]_vars

\* after the year changed, a past-tier and a current-tier entry written at this reading
C6_Witness ==
    /\ custom_ttl = None
    /\ ret.op = "set"
    /\ current_year(now) = 2026
    /\ HasEntry(store, 2025) /\ EntryOf(store, 2025).expires_at = now + 31536000
    /\ HasEntry(store, 2026) /\ EntryOf(store, 2026).expires_at = now + 86400

\* C7: with an override TTL t, 0 included, every set uses exactly t for every
\* year: expiresAt = now + t.
C7_OverrideTTL ==
    [][\A y \in Years, h \in HolidayLists :
        (set(y, h) /\ custom_ttl # None)
            => EntryOf(store', y).expires_at = now + custom_ttl.v]_vars

\* override 0: a past and a current year were both written with expiresAt = now
C7_Witness ==
    /\ custom_ttl = Some(0)
    /\ ret.op = "set"
    /\ current_year(now) = 2026
    /\ \A y \in Years : HasEntry(store, y) /\ EntryOf(store, y).expires_at = now

\* C8: after clear, size, hits and misses are 0, and a get of any year returns
\* nothing until that year is set again.
C8_ClearResets ==
    /\ [][clear => (Size(store') = 0 /\ hits' = 0 /\ misses' = 0)]_vars
    /\ [][\A y \in Years : (get(y) /\ ~written[y].valid) => ret'.value = None]_vars

\* a clear ran on a cache holding entries with both counters above 0
C8_Witness ==
    /\ ret.op = "clear"
    /\ ret.note = "in_use"
    /\ Size(store) = 0
    /\ hits = 0
    /\ misses = 0

\* what prune returns equals the entries removed, and live entries are untouched
PruneCountsAndKeeps ==
    /\ ret'.value = Some(Size(store) - Size(store'))
    /\ DOMAIN store' \subseteq DOMAIN store
    /\ \A k \in DOMAIN store' : store'[k] = store[k]

\* C9 as stated: after prune at time now no remaining entry has expiresAt <= now,
\* the count returned is the number removed, unexpired entries are unchanged.
C9_Original ==
    [][prune => /\ \A k \in DOMAIN store' : ~(store'[k].expires_at <= now)
                /\ PruneCountsAndKeeps]_vars

\* C9 amended: after prune at time now no remaining entry has expiresAt < now
\* (an entry with expiresAt = now is not expired and stays), the count returned
\* is the number removed, and every entry with expiresAt >= now is unchanged.
C9_PruneStrict ==
    [][prune => /\ \A k \in DOMAIN store' : ~(store'[k].expires_at < now)
                /\ \A k \in DOMAIN store : store[k].expires_at >= now => k \in DOMAIN store'
                /\ PruneCountsAndKeeps]_vars

\* a prune removed one entry and kept one whose expiresAt is exactly now
C9_Witness ==
    /\ ret.op = "prune"
    /\ ret.value = Some(1)
    /\ Size(store) = 1
    /\ \E k \in DOMAIN store : store[k].expires_at = now

\* C10: hits and misses never decrease except in a clear step, which resets
\* both to 0; set, prune and get_stats leave both unchanged.
C10_CountersMonotone ==
    /\ [][(hits' < hits \/ misses' < misses) => (clear /\ hits' = 0 /\ misses' = 0)]_vars
    /\ [][((\E y \in Years, h \in HolidayLists : set(y, h)) \/ prune \/ get_stats)
            => (hits' = hits /\ misses' = misses)]_vars

\* a prune removed an entry while both counters were above 0
C10_Witness ==
    /\ ret.op = "prune"
    /\ ret.value # Some(0)
    /\ hits > 0
    /\ misses > 0

\* C11: get_stats changes no state and reports a consistent snapshot: hits and
\* misses are the counters, size is the number of entries in the mapping, and
\* entries holds exactly one {key "year:<Y>", expiresAt} pair per stored year Y,
\* so len(entries) = size and no year appears twice.
C11_StatsSnapshot ==
    [][get_stats =>
        LET stats == ret'.value.v IN
        /\ UNCHANGED << store, hits, misses, custom_ttl, now >>
        /\ stats.hits = hits
        /\ stats.misses = misses
        /\ stats.size = Size(store)
        /\ Len(stats.entries) = stats.size
        /\ \A i \in 1..Len(stats.entries) :
              \E y \in Years :
                 /\ stats.entries[i].key = << "year", y >>
                 /\ HasEntry(store, y)
                 /\ stats.entries[i].expiresAt = EntryOf(store, y).expires_at
        /\ \A y \in Years :
              HasEntry(store, y) =>
                 Cardinality({i \in 1..Len(stats.entries) :
                                 stats.entries[i].key = << "year", y >>}) = 1]_vars

\* a snapshot of two entries with different expiresAt, one hit and one miss counted
C11_Witness ==
    /\ ret.op = "get_stats"
    /\ ret.value.v.size = 2
    /\ ret.value.v.hits = 1
    /\ ret.value.v.misses = 1
    /\ ret.value.v.entries[1].expiresAt # ret.value.v.entries[2].expiresAt

\* an entry for year is in st and has not expired at clock reading t
IsLive(st, year, t) == HasEntry(st, year) /\ ~(t > EntryOf(st, year).expires_at)

RECURSIVE CachedYears(_, _, _)
\* the stored lists of the years year..to_year, one after the other
CachedYears(st, year, to_year) ==
    IF year > to_year THEN << >>
    ELSE EntryOf(st, year).data \o CachedYears(st, year + 1, to_year)

\* C12: get_range(from, to) returns, when every year from.year..to.year is
\* present and unexpired, the cached holidays of those years in ascending year
\* and stored order whose date string lies in [fromStr, toStr]; otherwise nothing.
C12_Original ==
    [][\A r \in RangeArgs :
          ret'.op = "get_range" /\ get_range(r[1], r[2]) =>
             ret'.value =
                IF \A y \in date_year(r[1])..date_year(r[2]) : IsLive(store, y, now)
                THEN Some(SelectSeq(CachedYears(store, date_year(r[1]), date_year(r[2])),
                                    LAMBDA h : /\ StrLE(strftime(r[1]), h.date)
                                               /\ StrLE(h.date, strftime(r[2]))))
                ELSE None]_vars

\* the number of years of the set ys that hold a live entry
LiveCount(st, ys, t) == Cardinality({y \in ys : IsLive(st, y, t)})

\* C13: a get_range call inspects the years from from.year upward, one lookup
\* each: hits grows by the number of inspected years that are present and
\* unexpired, misses by the number of the others, the two together by exactly
\* the number of lookups; no year after an absent or expired one is inspected.
C13_NoDoubleCount ==
    [][\A r \in RangeArgs :
          ret'.op = "get_range" /\ get_range(r[1], r[2]) =>
             LET k == gets' - gets
                 inspected == date_year(r[1])..(date_year(r[1]) + k - 1)
             IN  /\ k >= 0
                 /\ \A y \in inspected : y <= date_year(r[2])
                 /\ hits' - hits = LiveCount(store, inspected, now)
                 /\ misses' - misses = k - LiveCount(store, inspected, now)
                 /\ \A y \in inspected :
                       ~IsLive(store, y, now) => y = date_year(r[1]) + k - 1
                 /\ ret'.value # None => k = Cardinality(date_year(r[1])..date_year(r[2]))]_vars

\* a two-year get_range has served 2025 from a live entry and stopped at 2026
C13_Witness ==
    /\ ret.op = "get_range"
    /\ ret.value = None
    /\ hits = 1
    /\ misses = 1
    /\ gets = 2
    /\ HasEntry(store, 2025)
    /\ EntryOf(store, 2025).data # << >>
    /\ written[2026] = NoWrite

CacheOps == {"get", "set", "get_range", "clear", "prune", "get_stats"}

MonthOffsets == << 0, 3, 2, 5, 0, 3, 5, 1, 4, 6, 2, 4 >>
DayOfWeek(y, m, d) ==
    LET yy == IF m < 3 THEN y - 1 ELSE y
    IN  (yy + (yy \div 4) - (yy \div 100) + (yy \div 400) + MonthOffsets[m] + d) % 7

\* the calendar dates (year, month, day) of the days in Window
CalendarDays ==
    {ymd \in {2025, 2026} \X {1, 12} \X (1..31) :
        /\ ymd[3] <= DaysInMonth(ymd[1], ymd[2])
        /\ Date(ymd[1], ymd[2], ymd[3]) \in Window}

\* C15: is_business_day(d) is false on a Saturday or Sunday, otherwise false
\* when d's "YYYY-MM-DD" string is in the holiday set, otherwise true; the call
\* leaves the holiday set as it was and a repeated call gives the same answer.
C15_IsBusinessDay ==
    [][\A ymd \in IF calc_ret'.op = "is_business_day" THEN CalendarDays ELSE {} :
          calc_is_business_day(Date(ymd[1], ymd[2], ymd[3])) =>
             /\ calc_ret'.value =
                   Some(IF DayOfWeek(ymd[1], ymd[2], ymd[3]) \in {0, 6} THEN FALSE
                        ELSE IF format_date(ymd[1], ymd[2], ymd[3]) \in holiday_set
                             THEN FALSE
                        ELSE TRUE)
             /\ holiday_set' = holiday_set
             /\ (calc_ret.op = "is_business_day" /\ calc_ret.args = calc_ret'.args
                    => calc_ret'.value = calc_ret.value)]_vars

\* Christmas 2025, a Thursday in the holiday set, was found not to be a business day
C15_Witness ==
    /\ calc_ret.op = "is_business_day"
    /\ calc_ret.args = << Date(2025, 12, 25) >>
    /\ calc_ret.value = Some(FALSE)
    /\ hChristmas.date \in holiday_set

\* C16: count_business_days and get_business_days_in_range called with
\* from > to raise ValueError, whatever the holiday set.
C16_InvalidRange ==
    (/\ calc_ret.op \in {"count_business_days", "get_business_days_in_range"}
     /\ calc_ret.args[1] > calc_ret.args[2])
        => calc_ret.value = Raise("ValueError")

\* count_business_days was called with from one day after to and raised
C16_Witness ==
    /\ calc_ret.op = "count_business_days"
    /\ calc_ret.args[1] = calc_ret.args[2] + 1
    /\ calc_ret.value = Raise("ValueError")
    /\ holiday_set # {}

\* the days from..to that are business days
BusinessDaysIn(S, from_date, to_date) == {d \in from_date..to_date : is_business_day(S, d)}

\* C17: for from <= to, count_business_days returns the number of days d with
\* from <= d <= to that are business days; for from = to that is 1 or 0.
C17_CountInclusive ==
    (calc_ret.op = "count_business_days" /\ calc_ret.args[1] <= calc_ret.args[2])
        => /\ calc_ret.value =
                 Some(Cardinality(BusinessDaysIn(holiday_set, calc_ret.args[1],
                                                 calc_ret.args[2])))
           /\ calc_ret.args[1] = calc_ret.args[2] =>
                 calc_ret.value.v =
                    IF is_business_day(holiday_set, calc_ret.args[1]) THEN 1 ELSE 0

\* 2025-12-24..2025-12-30 around the holiday run holds two business days, its endpoints
C17_Witness ==
    /\ calc_ret.op = "count_business_days"
    /\ calc_ret.args = << Date(2025, 12, 24), Date(2025, 12, 30) >>
    /\ calc_ret.value = Some(2)

\* C18: get_next_business_day(from) returns a business day r > from, and every
\* day strictly between from and r is a weekend day or a holiday.
C18_NextBusinessDay ==
    calc_ret.op = "get_next_business_day"
        => /\ calc_ret.value.kind = "value"
           /\ calc_ret.value.v > calc_ret.args[1]
           /\ is_business_day(holiday_set, calc_ret.value.v)
           /\ \A d \in (calc_ret.args[1] + 1)..(calc_ret.value.v - 1) :
                 is_weekend(d) \/ strftime(d) \in holiday_set

\* from a business day, five non-business days in a row were stepped over
C18_Witness ==
    /\ calc_ret.op = "get_next_business_day"
    /\ is_business_day(holiday_set, calc_ret.args[1])
    /\ calc_ret.value.v = calc_ret.args[1] + 6

\* C19: get_previous_business_day(from) returns a business day r < from, and
\* every day strictly between r and from is a non-business day.
C19_PreviousBusinessDay ==
    calc_ret.op = "get_previous_business_day"
        => /\ calc_ret.value.kind = "value"
           /\ calc_ret.value.v < calc_ret.args[1]
           /\ is_business_day(holiday_set, calc_ret.value.v)
           /\ \A d \in (calc_ret.value.v + 1)..(calc_ret.args[1] - 1) :
                 ~is_business_day(holiday_set, d)

\* from a business day, five non-business days in a row were stepped back over
C19_Witness ==
    /\ calc_ret.op = "get_previous_business_day"
    /\ is_business_day(holiday_set, calc_ret.args[1])
    /\ calc_ret.value.v = calc_ret.args[1] - 6

\* C20: add_business_days(from, 0) returns from; for n # 0 it returns a business
\* day r on the side of from given by the sign of n with exactly |n| business
\* days among the days after from up to r (from excluded, r included).
C20_AddBusinessDays ==
    calc_ret.op = "add_business_days"
        => LET from_date == calc_ret.args[1]
               n == calc_ret.args[2]
               r == calc_ret.value.v
           IN  /\ calc_ret.value.kind = "value"
               /\ n = 0 => r = from_date
               /\ n > 0 => /\ r > from_date
                           /\ is_business_day(holiday_set, r)
                           /\ Cardinality(BusinessDaysIn(holiday_set, from_date + 1, r)) = n
               /\ n < 0 => /\ r < from_date
                           /\ is_business_day(holiday_set, r)
                           /\ Cardinality(BusinessDaysIn(holiday_set, r, from_date - 1)) = -n

\* two business days were added to a holiday, across the rest of the holiday run
C20_Witness ==
    /\ calc_ret.op = "add_business_days"
    /\ calc_ret.args = << Date(2025, 12, 26), 2 >>
    /\ hRun[2].date \in holiday_set
    /\ calc_ret.value = Some(Date(2025, 12, 31))

\* add_business_days(r, -n) for the recorded call add_business_days(d, n) = r
RoundTrip == add_business_days(holiday_set, calc_ret.value.v, -calc_ret.args[2])

\* C21 as stated: add_business_days(add_business_days(d, n), -n) is d when d is a
\* business day, and is not d when d is not a business day.
C21_Original ==
    calc_ret.op = "add_business_days"
        => IF is_business_day(holiday_set, calc_ret.args[1])
           THEN RoundTrip = Some(calc_ret.args[1])
           ELSE RoundTrip # Some(calc_ret.args[1])

\* C21: add_business_days(add_business_days(d, n), -n) is d when d is a
\* business day or n = 0; when d is not a business day and n # 0 it is a
\* business day, hence not d.
C21_RoundTrip ==
    calc_ret.op = "add_business_days"
        => IF is_business_day(holiday_set, calc_ret.args[1]) \/ calc_ret.args[2] = 0
           THEN RoundTrip = Some(calc_ret.args[1])
           ELSE /\ RoundTrip # Some(calc_ret.args[1])
                /\ is_business_day(holiday_set, RoundTrip.v)

\* two business days forward from 2025-12-24 across the holiday run gave
\* 2025-12-31, and two business days back from there give 2025-12-24
C21_Witness ==
    /\ calc_ret.op = "add_business_days"
    /\ calc_ret.args = << Date(2025, 12, 24), 2 >>
    /\ calc_ret.value = Some(Date(2025, 12, 31))
    /\ hRun[4].date \in holiday_set
    /\ RoundTrip = Some(Date(2025, 12, 24))

\* C22: for from <= to, get_business_days_in_range returns the business days of
\* [from, to], each once, in strictly increasing order; its length is
\* count_business_days(from, to).
C22_RangeList ==
    (calc_ret.op = "get_business_days_in_range" /\ calc_ret.args[1] <= calc_ret.args[2])
        => LET days == calc_ret.value.v IN
           /\ calc_ret.value.kind = "value"
           /\ \A i \in 1..(Len(days) - 1) : days[i] < days[i + 1]
           /\ {days[i] : i \in 1..Len(days)} =
                 BusinessDaysIn(holiday_set, calc_ret.args[1], calc_ret.args[2])
           /\ Some(Len(days)) =
                 count_business_days(holiday_set, calc_ret.args[1], calc_ret.args[2])

\* the business days of 2025-12-24..2025-12-31 around the holiday run were listed
C22_Witness ==
    /\ calc_ret.op = "get_business_days_in_range"
    /\ calc_ret.args = << Date(2025, 12, 24), Date(2025, 12, 31) >>
    /\ calc_ret.value = Some(<< Date(2025, 12, 24), Date(2025, 12, 30), Date(2025, 12, 31) >>)

\* the date y-m-d written without zero padding, as in "2026-1-2"
Unpadded(y, m, d) == Decimal(y) \o << Dash >> \o Decimal(m) \o << Dash >> \o Decimal(d)

\* C23: a weekday d is not a business day exactly when the holiday set holds
\* the zero-padded "YYYY-MM-DD" string of d, character for character; when it
\* holds only another accepted spelling of that day, d is a business day.
C23_ExactString ==
    calc_ret.op = "is_business_day"
        => \A ymd \in CalendarDays :
              (/\ calc_ret.args = << Date(ymd[1], ymd[2], ymd[3]) >>
               /\ DayOfWeek(ymd[1], ymd[2], ymd[3]) \notin {0, 6})
                 => /\ calc_ret.value = Some(FALSE) <=>
                          \E v \in holiday_set :
                             /\ Len(v) = Len(format_date(ymd[1], ymd[2], ymd[3]))
                             /\ \A i \in 1..Len(v) :
                                   v[i] = format_date(ymd[1], ymd[2], ymd[3])[i]
                    /\ (/\ Unpadded(ymd[1], ymd[2], ymd[3]) \in holiday_set
                        /\ validate_date_format(Unpadded(ymd[1], ymd[2], ymd[3]))
                        /\ format_date(ymd[1], ymd[2], ymd[3]) \notin holiday_set)
                          => calc_ret.value = Some(TRUE)

\* Friday 2026-01-02, in the holiday set only as "2026-1-2", was found to be a business day
C23_Witness ==
    /\ calc_ret.op = "is_business_day"
    /\ calc_ret.args = << Date(2026, 1, 2) >>
    /\ calc_ret.value = Some(TRUE)
    /\ hUnpadded.date \in holiday_set
    /\ hUnpadded.date # format_date(2026, 1, 2)
    /\ validate_date_format(hUnpadded.date)

\* no lookup of the call that just ended went to the service
NoRequest(lookups) == \A i \in 1..Len(lookups) : lookups[i].from = "cache"

C25_Original ==
    [][\A y \in IF ret'.op = "get_holidays" THEN Years ELSE {} :
          \A response \in Responses :
             call_get_holidays(PyInt(y), response)
                => /\ hits' + misses' = hits + misses + 1
                   /\ misses' = misses + 1 <=> ~NoRequest(asked')
                   /\ hits' = hits + 1 <=> NoRequest(asked')]_vars

\* the call raised ValueError and touched neither the service nor the cache
RejectedUntouched ==
    /\ ret'.value = Raise("ValueError")
    /\ asked' = << >>
    /\ UNCHANGED << store, hits, misses >>

\* C26: get_holidays with a year outside [1900, 2100] or a non-integer year,
\* and get_holidays_by_range / get_business_days with from_date > to_date,
\* raise ValueError without a request and without changing the cache mapping
\* or the counters.
C26_ValidateFirst ==
    [][/\ \A year \in IF ret'.op = "get_holidays" THEN YearArgs ELSE {} :
             (/\ year.type # "int" \/ year.v < MIN_YEAR \/ year.v > MAX_YEAR
              /\ \E response \in Responses : call_get_holidays(year, response))
                => RejectedUntouched
       /\ \A r \in IF ret'.op \in {"get_holidays_by_range", "get_business_days"}
                   THEN ClientRangeArgs ELSE {} :
             (/\ r[1] > r[2]
              /\ \E responses \in [Years -> Responses] :
                    \/ call_get_holidays_by_range(r[1], r[2], responses)
                    \/ call_get_business_days(r[1], r[2], responses))
                => RejectedUntouched]_vars

\* a range call with from_date > to_date was rejected while the cache was in use
C26_Witness ==
    /\ ret.op = "get_holidays_by_range"
    /\ ret.arg[1] > ret.arg[2]
    /\ ret.value = Raise("ValueError")
    /\ asked = << >>
    /\ store # << >>
    /\ hits > 0
    /\ misses > 0

RECURSIVE AskedHolidays(_, _, _)
\* the holidays behind the lookups i.. of the range call that just returned,
\* one year after the other: the list the cache holds for the year, which is
\* the list it served or the answer of the service it stored
AskedHolidays(st, lookups, i) ==
    IF i > Len(lookups) THEN << >>
    ELSE EntryOf(st, lookups[i].year).data \o AskedHolidays(st, lookups, i + 1)

\* C27: a get_holidays_by_range with from_date <= to_date that returns has
\* looked up the years from_date.year..to_date.year once each in ascending
\* order and returns the holidays of those years, in that order, whose date
\* string lies in [from, to]; for a single day these are that day's holidays.
C27_ByRange ==
    (/\ ret.op = "get_holidays_by_range"
     /\ ret.arg[1] <= ret.arg[2]
     /\ ret.value.kind = "value")
       => /\ Len(asked) = date_year(ret.arg[2]) - date_year(ret.arg[1]) + 1
          /\ \A i \in 1..Len(asked) : asked[i].year = date_year(ret.arg[1]) + i - 1
          /\ ret.value.v =
                SelectSeq(AskedHolidays(store, asked, 1),
                          LAMBDA h : /\ StrLE(strftime(ret.arg[1]), h.date)
                                     /\ StrLE(h.date, strftime(ret.arg[2])))
          /\ ret.arg[1] = ret.arg[2] =>
                \A i \in 1..Len(ret.value.v) : ret.value.v[i].date = strftime(ret.arg[1])

\* a range across the year end took 2025 from the cache and 2026 from the
\* service and returned the one holiday of each list that lies in the range
C27_Witness ==
    /\ ret.op = "get_holidays_by_range"
    /\ ret.arg = << Date(2025, 12, 26), Date(2026, 1, 1) >>
    /\ asked = << Asked(2025, "cache"), Asked(2026, "service") >>
    /\ ret.value = Some(<< hNewYear, hNewYear >>)

\* the attempt failed with one of the errors the retry policy names: a network
\* error, a timeout, HTTP 429 or an HTTP status of 500 and above
RetryableFailure(call) ==
    /\ call.kind = "error"
    /\ \/ call.code \in {"NETWORK_ERROR", "TIMEOUT"}
       \/ call.status_code = 429
       \/ call.status_code >= 500

\* the attempt failed with an HTTP status below 500 other than 429, or with an
\* invalid-response error
NonRetryableFailure(call) ==
    /\ call.kind = "error"
    /\ \/ call.status_code > 0 /\ call.status_code < 500 /\ call.status_code # 429
       \/ call.code = "INVALID_RESPONSE"

\* the attempts 1..k of the request in progress all failed with retryable errors
AllRetryable(k) == \A j \in 1..k : RetryableFailure(calls[j])

\* C28: with retry enabled, a request does not end on a retryable failure while
\* attempts remain, and the first successful attempt among the first
\* max_retries + 1 ends the request: its list is returned and no attempt follows.
C28_RetryUntilSuccess ==
    retry.enabled =>
       \A k \in 1..Len(calls) :
          /\ (AllRetryable(k) /\ k < retry.max_retries + 1 /\ pc = "done")
                => Len(calls) > k
          /\ (AllRetryable(k - 1) /\ calls[k].kind = "value" /\ k <= retry.max_retries + 1)
                => /\ Len(calls) = k
                   /\ pc = "done"
                   /\ outcome = calls[k]

\* an HTTP 500 and a timeout were retried and the third attempt's list returned
C28_Witness ==
    /\ retry.enabled
    /\ retry.max_retries = 2
    /\ pc = "done"
    /\ Len(calls) = 3
    /\ calls[1] = from_response(500)
    /\ calls[2] = timeout
    /\ outcome = Some(<< hNewYear, hChristmas >>)
    /\ slept = << 1, 2 >>

\* C29: with retry enabled and max_retries >= 0, an attempt that fails with a
\* non-retryable error is the last one: the error is raised at once, without a
\* wait after it; when it is the first attempt, one attempt and no wait.
C29_NeverRetried ==
    (retry.enabled /\ retry.max_retries >= 0) =>
       \A k \in 1..Len(calls) :
          NonRetryableFailure(calls[k])
             => /\ Len(calls) = k
                /\ pc = "done"
                /\ outcome = calls[k]
                /\ Len(slept) = k - 1

\* a client with two retries left gave up on the first attempt's HTTP 404
C29_Witness ==
    /\ retry.enabled
    /\ retry.max_retries = 2
    /\ calls = << from_response(404) >>
    /\ slept = << >>
    /\ pc = "done"
    /\ outcome = from_response(404)

\* C30: with retry enabled and max_retries >= 0 there are never more than
\* max_retries + 1 attempts, and a request all of whose attempts failed with
\* retryable errors ends after exactly max_retries + 1 attempts with the error
\* of the last one; with retry disabled a request makes exactly one attempt.
C30_AttemptBound ==
    /\ (retry.enabled /\ retry.max_retries >= 0)
          => /\ Len(calls) <= retry.max_retries + 1
             /\ (pc = "done" /\ AllRetryable(Len(calls)))
                   => /\ Len(calls) = retry.max_retries + 1
                      /\ outcome = calls[Len(calls)]
    /\ ~retry.enabled
          => /\ Len(calls) <= 1
             /\ pc = "done" => Len(calls) = 1 /\ outcome = calls[1]

\* three attempts of a client with max_retries 2 failed, the last with HTTP 429
C30_Witness ==
    /\ retry.enabled
    /\ retry.max_retries = 2
    /\ pc = "done"
    /\ calls = << timeout, network_error, from_response(429) >>
    /\ outcome = from_response(429)
    /\ Len(slept) = 2

\* C31: whichever way two threads' get_holidays calls interleave, the
\* assignment in set leaves for its year the entry made of that call's own
\* holidays and expires_at and leaves every other year's entry as it was, so an
\* entry in the cache is always the one the last executed set wrote, never a
\* mix of two.
C31_LastSetWins ==
    /\ [](\A y \in Years :
             HasEntry(store, y)
                => /\ written[y].valid
                   /\ EntryOf(store, y) = CacheEntry(written[y].data, written[y].expires_at))
    /\ [][\A t \in Threads :
             set_entry(t)
                => /\ HasEntry(store', threads[t].year)
                   /\ EntryOf(store', threads[t].year)
                         = CacheEntry(threads[t].holidays, threads[t].expires_at)
                   /\ OthersKept(store, store', threads[t].year)
                   /\ OthersKept(store', store, threads[t].year)]_vars

\* both threads missed, fetched different lists and set them: one entry is left
C31_Witness ==
    /\ CallsMade(threads, Threads) = 2
    /\ misses = 2
    /\ hits = 0
    /\ \A t \in Threads : threads[t].at = "idle" /\ threads[t].result.kind = "value"
    /\ threads[1].result # threads[2].result
    /\ Size(store) = 1
    /\ \E y \in Years : HasEntry(store, y) /\ Some(EntryOf(store, y).data) = threads[1].result

\* C32: a get_holidays caller whose lookup gave nothing issues its request
\* whatever the other caller is doing; nothing keeps two fetches of the same
\* year from being outstanding at once.
C32_NoDeduplication ==
    [][\A t \in Threads :
          (count_miss(t) \/ (count_hit(t) /\ threads[t].entry.v.data = << >>))
             => threads'[t].at = "request"]_vars

\* both callers have recorded a miss on 2025 and both fetches are outstanding
C32_Witness ==
    /\ \A t \in Threads : /\ threads[t].op = "get_holidays"
                          /\ threads[t].year = 2025
                          /\ threads[t].at = "request"
    /\ misses = 2
    /\ ~HasEntry(store, 2025)

\* C35: no call of either thread ends in an exception, however the statements
\* of the two threads' get, prune and clear interleave.
C35_Original == \A t \in Threads : threads[t].result.kind # "error"

\* C40: a get_holidays(Y) whose fetch fails raises the error to the caller,
\* creates or replaces no entry for Y, keeps the entries of all other years,
\* and advances the misses counter only.
C40_Original ==
    [][\A y \in IF ret'.op = "get_holidays" THEN Years ELSE {} :
          (/\ call_get_holidays(PyInt(y), Raise("HudyError"))
           /\ asked' = << Asked(y, "service") >>)
             => /\ ret'.value = Raise("HudyError")
                /\ HasEntry(store', y) => HasEntry(store, y) /\ EntryOf(store', y) = EntryOf(store, y)
                /\ OthersKept(store, store', y)
                /\ OthersKept(store', store, y)
                /\ misses' = misses + 1
                /\ hits' = hits]_vars

\* C36: every wait of the retry loop is at most max_delay, whatever the retry
\* options are.
C36_Original == \A i \in 1..Len(slept) : slept[i] <= retry.max_delay

\* C37: whatever max_retries is and whether retry is enabled or not, a request
\* that has ended made at least one attempt and either returned a holiday list
\* or raised a HudyError.
C37_Original ==
    pc = "done"
       => /\ Len(calls) >= 1
          /\ \/ outcome.kind = "value"
             \/ outcome.kind = "error" /\ outcome.type = "HudyError"

\* the value the scan that has returned gives its caller
WalkResult ==
    IF walk.op = "get_next_business_day" THEN get_next_business_day(holiday_set, walk.from_date)
    ELSE IF walk.op = "get_previous_business_day"
    THEN get_previous_business_day(holiday_set, walk.from_date)
    ELSE add_business_days(holiday_set, walk.from_date, walk.days)

\* C38: every scan of get_next_business_day, get_previous_business_day and
\* add_business_days moves one calendar day in its one direction with each loop
\* pass, and every scan that is in its loop returns, with the method's answer.
C38_Terminates ==
    /\ [][(walk_step /\ walk'.pc = "loop")
             => walk'.current = walk.current + direction(walk)]_vars
    /\ [](walk.pc = "done" => Some(walk.current) = WalkResult)
    /\ (walk.pc = "loop") ~> (walk.pc = "done")

\* a search from the day before a four-day cluster of holidays and a weekend
\* has walked past the cluster and returned
C38_Witness ==
    /\ walk.pc = "done"
    /\ walk.op = "get_next_business_day"
    /\ walk.from_date = Date(2025, 12, 24)
    /\ walk.current = Date(2025, 12, 30)
    /\ strftime(Date(2025, 12, 29)) \in holiday_set

\* every date the service lists as a holiday
ServiceDates == UNION {DateSetOf(Calendar(y)) : y \in ServiceYears}

\* C33: HudyClient.add_business_days(d, n) returns what a BusinessDayCalculator
\* built from the service's complete lists returns, and for n # 0 never a date
\* the service lists as a holiday.
C33_Original ==
    (ret.op = "add_business_days" /\ ret.value.kind = "value")
        => /\ ret.value = add_business_days(ServiceDates, ret.arg[1], ret.arg[2])
           /\ ret.arg[2] # 0 => strftime(ret.value.v) \notin ServiceDates

\* the search from from_date can cross the year end: with the holidays the
\* service lists, the next business day lies in a later year
CanCrossYearEnd(from_date) ==
    date_year(get_next_business_day(ServiceDates, from_date).v) > date_year(from_date)

\* C34: HudyClient.get_next_business_day(d), d in a supported year, returns a
\* date unless a fetch failed, and looks up the year of d and, only when the
\* search can cross the year end, the year after.
C34_Original ==
    (ret.op = "get_next_business_day"
        /\ MIN_YEAR <= date_year(ret.arg) /\ date_year(ret.arg) <= MAX_YEAR)
        => /\ \/ ret.value.kind = "value"
              \/ ret.value.kind = "error" /\ ret.value.type = "HudyError"
           /\ \A i \in 1..Len(asked) :
                 \/ asked[i].year = date_year(ret.arg)
                 \/ asked[i].year = date_year(ret.arg) + 1 /\ CanCrossYearEnd(ret.arg)

\* C39: whatever calls the client has completed, the list the cache holds for
\* a year is the list the service answered at the last successful fetch of it.
C39_CacheNotMutated ==
    \A y \in ServiceYears :
       HasEntry(store, y) => written[y].valid /\ EntryOf(store, y).data = written[y].data

\* get_next_business_day fetched 2025 and 2026, joined the two lists for its
\* calculator, and the cache holds the list of 2025 as it was fetched
C39_Witness ==
    /\ ret.op = "get_next_business_day"
    /\ ret.value.kind = "value"
    /\ asked = << Asked(2025, "service"), Asked(2026, "service") >>
    /\ HasEntry(store, 2025) /\ HasEntry(store, 2026)
    /\ EntryOf(store, 2025).data = Calendar(2025)
    /\ ret.value.v = Date(2026, 1, 12)

====
